---- MODULE Spec2Model ----
(***************************************************************************)
(* The 2048 board engine of src/game.py (class Game) as a state machine.   *)
(* A board is a sequence of Size rows, each a sequence of Size tile        *)
(* values; Python's 0-based index k is index k+1 here.                     *)
(***************************************************************************)
EXTENDS Integers, Sequences, FiniteSets, TLC

\* Game.__init__(size = 4): the side length of the board.
Size == 4

\* How many method calls one behaviour makes after construction.
MaxOps == 2

\* How many method calls one behaviour makes from a sampled board.
MaxAnyOps == 1

\* How many iterations of the play loop one behaviour makes.
MaxIters == 1

\* The iterations of the while loop of play_game a behaviour follows.
MaxSteps == 3

Idx == 1..Size

VARIABLES
    board,      \* Game.board
    score,      \* Game.score
    last,       \* the method called last ("__init__" after construction)
    ret,        \* the int a move returned (0 when the last call returned none)
    legal,      \* the set get_legal_moves returned ({} when not the last call)
    over,       \* the bool is_game_over returned (FALSE when not the last call)
    new_tile,   \* spawn_tile's local new_tile (0 when the last call drew none)
    err,        \* the exception the last call raised, "none" when it returned
    old_board,  \* Game.board when the last call (or loop iteration) began
    old_score,  \* Game.score when the last call (or loop iteration) began
    left,       \* calls (or loop iterations) the behaviour may still make
    agent,      \* the module of the agent object ("none" when there is none)
    LUT,        \* TdLearningAgent.LUT
    old_LUT,    \* TdLearningAgent.LUT when the last call began
    result,     \* the arguments and return values of the agent method called last
    fractions,  \* TdLearningAgent.LUT: what each weight holds below one unit
    learn,      \* TdLearningAgent.learn
    history,    \* play_game's list history
    log,        \* the learn_evaluation calls play_game has made, in order
    cache,      \* ExpectimaxAgent.cache
    stack,      \* the frames of the ExpectimaxAgent methods that have not returned
    returns,    \* what the ExpectimaxAgent method that returned last returned
    calls,      \* the number of get_best_move calls made
    hit,        \* the cache entry the last step read (<<>> when it read none)
    set_order,  \* the order in which list() reads a set of moves in this process
    parity      \* the statements get_best_move has run since its call, modulo 2

gameVars == <<board, score, last, ret, legal, over, new_tile, err,
              old_board, old_score, left>>

agentVars == <<agent, LUT, old_LUT, result>>

episodeVars == <<fractions, learn, history, log>>

searchVars == <<cache, stack, returns, calls, hit, set_order, parity>>

vars == <<gameVars, agentVars, episodeVars, searchVars>>

-----------------------------------------------------------------------------
(* Helpers on lines and boards *)

\* [0 for _ in range(self.size)]
ZeroLine == [i \in Idx |-> 0]

\* [[0 for _ in range(self.size)] for _ in range(self.size)]
EmptyBoard == [x \in Idx |-> ZeroLine]

\* [n for n in row if n != 0]
NonZero(line) == SelectSeq(line, LAMBDA n : n # 0)

\* [row[y] for row in self.board]
Column(b, y) == [x \in Idx |-> b[x][y]]

\* Fault: the write-back of a column with += in place of =.
SetColumnAdd(b, y, col) == [x \in Idx |-> [b[x] EXCEPT ![y] = @ + col[x]]]

\* for j in range(self.size): self.board[j][y] = new_col[j]
SetColumn(b, y, col) == [x \in Idx |-> [b[x] EXCEPT ![y] = col[x]]]

-----------------------------------------------------------------------------
(* get_empty_tiles and spawn_tile *)

\* Fault: get_empty_tiles with the two coordinates of a position swapped.
get_empty_tiles_swapped(b) == {p \in Idx \X Idx : b[p[2]][p[1]] = 0}

\* Game.get_empty_tiles: the (x, y) positions whose cell is 0.
get_empty_tiles(b) == {p \in Idx \X Idx : b[p[1]][p[2]] = 0}

\* new_tile = 2 if random.random() < 0.9 else 4
NewTileValues == {2, 4}

\* Fault: spawn_tile that returns without writing the tile to the board.
PlaceTile_nowhere(b, p, t) == b

\* self.board[x][y] = new_tile
PlaceTile(b, p, t) == [b EXCEPT ![p[1]][p[2]] = t]

\* The boards one successful spawn_tile call can leave.
SpawnBoards(b) ==
    {PlaceTile(b, p, t) : p \in get_empty_tiles(b), t \in NewTileValues}

\* The message of the ValueError spawn_tile raises on a full board.
BoardFullError == "ValueError: Cannot add new tile: board is full."

-----------------------------------------------------------------------------
(* The four moves *)

\* Fault: move_left's scan stepping tile_index by 1 after a merge, so that
\* the second tile of a pair is scanned again.
RECURSIVE LeftScanNoSkip(_, _, _, _, _)
LeftScanNoSkip(row_values, tile_index, new_row, new_index, new_score) ==
    IF tile_index > Len(row_values)
    THEN [line |-> new_row, new_score |-> new_score]
    ELSE IF /\ tile_index < Len(row_values)
            /\ row_values[tile_index] = row_values[tile_index + 1]
         THEN LeftScanNoSkip(row_values, tile_index + 1,
                       [new_row EXCEPT ![new_index] = row_values[tile_index] * 2],
                       new_index + 1,
                       new_score + row_values[tile_index] * 2)
         ELSE LeftScanNoSkip(row_values, tile_index + 1,
                       [new_row EXCEPT ![new_index] = row_values[tile_index]],
                       new_index + 1,
                       new_score)

\* The while loop of move_left over one row: tile_index and new_index are
\* 1-based here. Yields the new row and the points of the row's merges.
RECURSIVE LeftScan(_, _, _, _, _)
LeftScan(row_values, tile_index, new_row, new_index, new_score) ==
    IF tile_index > Len(row_values)
    THEN [line |-> new_row, new_score |-> new_score]
    ELSE IF /\ tile_index < Len(row_values)
            /\ row_values[tile_index] = row_values[tile_index + 1]
         THEN LeftScan(row_values, tile_index + 2,
                       [new_row EXCEPT ![new_index] = row_values[tile_index] * 2],
                       new_index + 1,
                       new_score + row_values[tile_index] * 2)
         ELSE LeftScan(row_values, tile_index + 1,
                       [new_row EXCEPT ![new_index] = row_values[tile_index]],
                       new_index + 1,
                       new_score)

\* Fault: move_right's scan scoring the value of one merged tile instead
\* of the value of the tile the merge makes.
RECURSIVE RightScanHalfPoints(_, _, _, _, _)
RightScanHalfPoints(row_values, tile_index, new_row, new_index, new_score) ==
    IF tile_index < 1
    THEN [line |-> new_row, new_score |-> new_score]
    ELSE IF /\ tile_index > 1
            /\ row_values[tile_index] = row_values[tile_index - 1]
         THEN RightScanHalfPoints(row_values, tile_index - 2,
                        [new_row EXCEPT ![new_index] = row_values[tile_index] * 2],
                        new_index - 1,
                        new_score + row_values[tile_index])
         ELSE RightScanHalfPoints(row_values, tile_index - 1,
                        [new_row EXCEPT ![new_index] = row_values[tile_index]],
                        new_index - 1,
                        new_score)

\* The while loop of move_right over one row, from the last value down.
RECURSIVE RightScan(_, _, _, _, _)
RightScan(row_values, tile_index, new_row, new_index, new_score) ==
    IF tile_index < 1
    THEN [line |-> new_row, new_score |-> new_score]
    ELSE IF /\ tile_index > 1
            /\ row_values[tile_index] = row_values[tile_index - 1]
         THEN RightScan(row_values, tile_index - 2,
                        [new_row EXCEPT ![new_index] = row_values[tile_index] * 2],
                        new_index - 1,
                        new_score + row_values[tile_index] * 2)
         ELSE RightScan(row_values, tile_index - 1,
                        [new_row EXCEPT ![new_index] = row_values[tile_index]],
                        new_index - 1,
                        new_score)

\* Fault: move_up's scan writing a merged pair as one tile of the same
\* value instead of the double.
RECURSIVE UpScanNoDouble(_, _, _, _, _)
UpScanNoDouble(col_values, tile_index, new_col, new_index, new_score) ==
    IF tile_index > Len(col_values)
    THEN [line |-> new_col, new_score |-> new_score]
    ELSE IF /\ tile_index < Len(col_values)
            /\ col_values[tile_index] = col_values[tile_index + 1]
         THEN UpScanNoDouble(col_values, tile_index + 2,
                     [new_col EXCEPT ![new_index] = col_values[tile_index]],
                     new_index + 1,
                     new_score + col_values[tile_index] * 2)
         ELSE UpScanNoDouble(col_values, tile_index + 1,
                     [new_col EXCEPT ![new_index] = col_values[tile_index]],
                     new_index + 1,
                     new_score)

\* The while loop of move_up over one column.
RECURSIVE UpScan(_, _, _, _, _)
UpScan(col_values, tile_index, new_col, new_index, new_score) ==
    IF tile_index > Len(col_values)
    THEN [line |-> new_col, new_score |-> new_score]
    ELSE IF /\ tile_index < Len(col_values)
            /\ col_values[tile_index] = col_values[tile_index + 1]
         THEN UpScan(col_values, tile_index + 2,
                     [new_col EXCEPT ![new_index] = col_values[tile_index] * 2],
                     new_index + 1,
                     new_score + col_values[tile_index] * 2)
         ELSE UpScan(col_values, tile_index + 1,
                     [new_col EXCEPT ![new_index] = col_values[tile_index]],
                     new_index + 1,
                     new_score)

\* Fault: move_down's scan stepping i by 1 after a merge, so that the
\* second tile of a pair is scanned again.
RECURSIVE DownScanNoSkip(_, _, _, _, _)
DownScanNoSkip(col_values, i, new_col, new_index, new_score) ==
    IF i < 1
    THEN [line |-> new_col, new_score |-> new_score]
    ELSE IF i > 1 /\ col_values[i] = col_values[i - 1]
         THEN DownScanNoSkip(col_values, i - 1,
                       [new_col EXCEPT ![new_index] = col_values[i] * 2],
                       new_index - 1,
                       new_score + col_values[i] * 2)
         ELSE DownScanNoSkip(col_values, i - 1,
                       [new_col EXCEPT ![new_index] = col_values[i]],
                       new_index - 1,
                       new_score)

\* The while loop of move_down over one column, from the last value down.
RECURSIVE DownScan(_, _, _, _, _)
DownScan(col_values, i, new_col, new_index, new_score) ==
    IF i < 1
    THEN [line |-> new_col, new_score |-> new_score]
    ELSE IF i > 1 /\ col_values[i] = col_values[i - 1]
         THEN DownScan(col_values, i - 2,
                       [new_col EXCEPT ![new_index] = col_values[i] * 2],
                       new_index - 1,
                       new_score + col_values[i] * 2)
         ELSE DownScan(col_values, i - 1,
                       [new_col EXCEPT ![new_index] = col_values[i]],
                       new_index - 1,
                       new_score)

\* for x, row in enumerate(self.board): rows x..Size of move_left, with the
\* board and the new_score accumulated so far.
RECURSIVE LeftRows(_, _, _)
LeftRows(b, x, new_score) ==
    IF x > Size
    THEN [board |-> b, new_score |-> new_score]
    ELSE LET r == LeftScan(NonZero(b[x]), 1, ZeroLine, 1, new_score)
         IN  LeftRows([b EXCEPT ![x] = r.line], x + 1, r.new_score)

\* for x, row in enumerate(self.board): rows x..Size of move_right.
RECURSIVE RightRows(_, _, _)
RightRows(b, x, new_score) ==
    IF x > Size
    THEN [board |-> b, new_score |-> new_score]
    ELSE LET row_values == NonZero(b[x])
             r == RightScan(row_values, Len(row_values), ZeroLine, Size, new_score)
         IN  RightRows([b EXCEPT ![x] = r.line], x + 1, r.new_score)

\* for y in range(self.size): columns y..Size of move_up.
RECURSIVE UpCols(_, _, _)
UpCols(b, y, new_score) ==
    IF y > Size
    THEN [board |-> b, new_score |-> new_score]
    ELSE LET r == UpScan(NonZero(Column(b, y)), 1, ZeroLine, 1, new_score)
         IN  UpCols(SetColumn(b, y, r.line), y + 1, r.new_score)

\* for y in range(self.size): columns y..Size of move_down.
RECURSIVE DownCols(_, _, _)
DownCols(b, y, new_score) ==
    IF y > Size
    THEN [board |-> b, new_score |-> new_score]
    ELSE LET col_values == NonZero(Column(b, y))
             r == DownScan(col_values, Len(col_values), ZeroLine, Size, new_score)
         IN  DownCols(SetColumn(b, y, r.line), y + 1, r.new_score)

\* The board a move leaves and the new_score it returns, by direction.
MoveLeft(b) == LeftRows(b, 1, 0)
MoveRight(b) == RightRows(b, 1, 0)
MoveUp(b) == UpCols(b, 1, 0)
MoveDown(b) == DownCols(b, 1, 0)

\* Fault: self.score -= new_score.
AddScoreSubtract(s, new_score) == s - new_score

\* self.score += new_score
AddScore(s, new_score) == s + new_score

-----------------------------------------------------------------------------
(* get_legal_moves and is_game_over *)

\* Fault: the LEFT loop of get_legal_moves without its test for a gap.
LeftLegalMergesOnly(b) ==
    \E r \in Idx : \E x \in 1..(Size - 1) :
        b[r][x] # 0 /\ b[r][x] = b[r][x + 1]

\* The LEFT loop of get_legal_moves: some row has a gap before a tile or
\* two equal neighbours (the breaks only end the search early).
LeftLegal(b) ==
    \E r \in Idx : \E x \in 1..(Size - 1) :
        \/ b[r][x] = 0 /\ b[r][x + 1] # 0
        \/ b[r][x] # 0 /\ b[r][x] = b[r][x + 1]

\* Fault: the RIGHT loop of get_legal_moves scanning the columns, as the
\* DOWN loop does.
RightLegalByColumns(b) ==
    \E i \in Idx : \E y \in 2..Size :
        \/ b[y][i] = 0 /\ b[y - 1][i] # 0
        \/ b[y][i] # 0 /\ b[y][i] = b[y - 1][i]

\* The RIGHT loop of get_legal_moves: rows scanned from the right.
RightLegal(b) ==
    \E r \in Idx : \E x \in 2..Size :
        \/ b[r][x] = 0 /\ b[r][x - 1] # 0
        \/ b[r][x] # 0 /\ b[r][x] = b[r][x - 1]

\* The UP loop of get_legal_moves: columns scanned from the top.
UpLegal(b) ==
    \E i \in Idx : \E y \in 1..(Size - 1) :
        LET col == Column(b, i)
        IN  \/ col[y] = 0 /\ col[y + 1] # 0
            \/ col[y] # 0 /\ col[y] = col[y + 1]

\* Fault: the DOWN loop of get_legal_moves without its test for equal
\* neighbours.
DownLegalGapsOnly(b) ==
    \E i \in Idx : \E y \in 2..Size :
        LET col == Column(b, i)
        IN  col[y] = 0 /\ col[y - 1] # 0

\* The DOWN loop of get_legal_moves: columns scanned from the bottom.
DownLegal(b) ==
    \E i \in Idx : \E y \in 2..Size :
        LET col == Column(b, i)
        IN  \/ col[y] = 0 /\ col[y - 1] # 0
            \/ col[y] # 0 /\ col[y] = col[y - 1]

\* Fault: get_legal_moves that names the four moves whatever the board.
LegalMovesAll(b) == {"LEFT", "RIGHT", "UP", "DOWN"}

\* Game.get_legal_moves
LegalMoves(b) ==
    (IF LeftLegal(b) THEN {"LEFT"} ELSE {}) \cup
    (IF RightLegal(b) THEN {"RIGHT"} ELSE {}) \cup
    (IF UpLegal(b) THEN {"UP"} ELSE {}) \cup
    (IF DownLegal(b) THEN {"DOWN"} ELSE {})

\* Fault: is_game_over deciding by the empty cells instead of the moves.
GameOverWhenFull(b) == IF get_empty_tiles(b) # {} THEN FALSE ELSE TRUE

\* Game.is_game_over
GameOver(b) == IF LegalMoves(b) # {} THEN FALSE ELSE TRUE

-----------------------------------------------------------------------------
(* The state after construction *)

\* A Game object as a value: its board and its score.
GameOf(b, s) == [board |-> b, score |-> s]

\* What the agent variables hold while no agent method has been called.
NoResult ==
    [arg |-> "", action |-> "", value |-> 0, reward |-> 0,
     afterstate |-> GameOf(EmptyBoard, 0), next_state |-> GameOf(EmptyBoard, 0),
     states |-> <<>>]

\* What the episode variables hold while no episode is played: weights are
\* whole numbers, learning is enabled as __init__ leaves it, and nothing has
\* been recorded.
NoEpisode ==
    /\ fractions = <<>>
    /\ learn = TRUE
    /\ history = <<>>
    /\ log = <<>>

\* What the search variables hold while no search has been made: the empty
\* cache of ExpectimaxAgent.__init__ and no call.
NoSearch ==
    /\ cache = <<>>
    /\ stack = <<>>
    /\ returns = <<>>
    /\ calls = 0
    /\ hit = <<>>
    /\ set_order = <<"LEFT", "RIGHT", "UP", "DOWN">>
    /\ parity = 0

NoAgent ==
    /\ agent = "none"
    /\ LUT = <<>>
    /\ old_LUT = <<>>
    /\ result = NoResult
    /\ NoEpisode
    /\ NoSearch

\* Fault: Game.__init__ with one spawn_tile call.
NewGameBoardsOneSpawn == SpawnBoards(EmptyBoard)

\* Game.__init__: score 0, an empty board, then two spawn_tile calls.
NewGameBoards == UNION {SpawnBoards(b1) : b1 \in SpawnBoards(EmptyBoard)}

Init ==
    /\ board \in NewGameBoards
    /\ score = 0
    /\ last = "__init__"
    /\ ret = 0
    /\ legal = {}
    /\ over = FALSE
    /\ new_tile = 0
    /\ err = "none"
    /\ old_board = EmptyBoard
    /\ old_score = 0
    /\ left = MaxOps
    /\ NoAgent

-----------------------------------------------------------------------------
(* One action per method of Game *)

\* What every call does to the bookkeeping variables.
Call(name) ==
    /\ left > 0
    /\ left' = left - 1
    /\ last' = name
    /\ old_board' = board
    /\ old_score' = score
    /\ UNCHANGED <<agentVars, episodeVars, searchVars>>

Moved(name, m) ==
    /\ Call(name)
    /\ board' = m.board
    /\ score' = AddScore(score, m.new_score)
    /\ ret' = m.new_score
    /\ legal' = {}
    /\ over' = FALSE
    /\ new_tile' = 0
    /\ err' = "none"

move_left == Moved("move_left", MoveLeft(board))
move_right == Moved("move_right", MoveRight(board))
move_up == Moved("move_up", MoveUp(board))
move_down == Moved("move_down", MoveDown(board))

\* Fault: spawn_tile choosing among all cells when none is empty, instead
\* of raising.
spawn_tile_overwrite ==
    /\ Call("spawn_tile")
    /\ \E t \in NewTileValues :
        /\ new_tile' = t
        /\ LET empty_tiles == IF get_empty_tiles(board) # {}
                              THEN get_empty_tiles(board) ELSE Idx \X Idx
           IN  \E p \in empty_tiles : board' = PlaceTile(board, p, t)
        /\ err' = "none"
    /\ UNCHANGED score
    /\ ret' = 0
    /\ legal' = {}
    /\ over' = FALSE

\* Game.spawn_tile
spawn_tile ==
    /\ Call("spawn_tile")
    /\ \E t \in NewTileValues :
        /\ new_tile' = t
        /\ IF get_empty_tiles(board) # {}
           THEN /\ \E p \in get_empty_tiles(board) : board' = PlaceTile(board, p, t)
                /\ err' = "none"
           ELSE /\ board' = board
                /\ err' = BoardFullError
    /\ UNCHANGED score
    /\ ret' = 0
    /\ legal' = {}
    /\ over' = FALSE

get_legal_moves ==
    /\ Call("get_legal_moves")
    /\ legal' = LegalMoves(board)
    /\ UNCHANGED <<board, score>>
    /\ ret' = 0
    /\ over' = FALSE
    /\ new_tile' = 0
    /\ err' = "none"

is_game_over ==
    /\ Call("is_game_over")
    /\ over' = GameOver(board)
    /\ UNCHANGED <<board, score>>
    /\ ret' = 0
    /\ legal' = {}
    /\ new_tile' = 0
    /\ err' = "none"

Next ==
    \/ move_left
    \/ move_right
    \/ move_up
    \/ move_down
    \/ spawn_tile
    \/ get_legal_moves
    \/ is_game_over

Spec == Init /\ [][Next]_vars

-----------------------------------------------------------------------------
(* The same methods, called on a game in the middle of play *)

\* Rows the sampled boards are built from: empty, compact, with gaps, with
\* one pair, a triple, four of a kind, and two rows that alternate.
SampleLines ==
    { <<0, 0, 0, 0>>, <<2, 4, 0, 0>>, <<2, 2, 0, 0>>, <<0, 4, 0, 2>>,
      <<2, 2, 2, 0>>, <<2, 2, 2, 2>>, <<2, 4, 2, 4>>, <<4, 2, 4, 2>> }

\* The number of non-zero cells of a board.
TileCount(b) == Cardinality((Idx \X Idx) \ get_empty_tiles(b))

\* Boards of 2s and 4s with at least the two tiles of a new game: each is
\* what Game() followed by spawn_tile() calls alone can leave, with score 0.
SampleBoards == {b \in [Idx -> SampleLines] : TileCount(b) >= 2}

\* A game a run of spawn_tile calls has brought to a sampled board.
InitAny ==
    /\ board \in SampleBoards
    /\ score = 0
    /\ last = "__init__"
    /\ ret = 0
    /\ legal = {}
    /\ over = FALSE
    /\ new_tile = 0
    /\ err = "none"
    /\ old_board = EmptyBoard
    /\ old_score = 0
    /\ left = MaxAnyOps
    /\ NoAgent

SpecAny == InitAny /\ [][Next]_vars

-----------------------------------------------------------------------------
(* Game.play: the loop that applies a legal move and then spawns a tile *)

\* What input() can return: the four move keys and any other text.
Keys == {"a", "d", "w", "s", "other"}

\* One accepted input: the move, then self.spawn_tile().
PlayMove(name, m) ==
    /\ UNCHANGED <<agentVars, episodeVars, searchVars>>
    /\ left' = left - 1
    /\ last' = name
    /\ old_board' = board
    /\ old_score' = score
    /\ score' = AddScore(score, m.new_score)
    /\ ret' = m.new_score
    /\ legal' = LegalMoves(board)
    /\ over' = FALSE
    /\ \E t \in NewTileValues :
        /\ new_tile' = t
        /\ IF get_empty_tiles(m.board) # {}
           THEN /\ \E p \in get_empty_tiles(m.board) :
                        board' = PlaceTile(m.board, p, t)
                /\ err' = "none"
           ELSE /\ board' = m.board
                /\ err' = BoardFullError

\* One iteration of the while loop of Game.play.
play ==
    /\ left > 0
    /\ err = "none"
    /\ ~GameOver(board)
    /\ \E move \in Keys :
        LET legal_moves == LegalMoves(board)
        IN  \/ move = "a" /\ "LEFT" \in legal_moves
               /\ PlayMove("move_left", MoveLeft(board))
            \/ move = "d" /\ "RIGHT" \in legal_moves
               /\ PlayMove("move_right", MoveRight(board))
            \/ move = "w" /\ "UP" \in legal_moves
               /\ PlayMove("move_up", MoveUp(board))
            \/ move = "s" /\ "DOWN" \in legal_moves
               /\ PlayMove("move_down", MoveDown(board))
            \/ /\ ~(move = "a" /\ "LEFT" \in legal_moves)
               /\ ~(move = "d" /\ "RIGHT" \in legal_moves)
               /\ ~(move = "w" /\ "UP" \in legal_moves)
               /\ ~(move = "s" /\ "DOWN" \in legal_moves)
               /\ UNCHANGED vars

\* Game().play(): a new game with the loop's iterations still to make.
InitPlay ==
    /\ board \in NewGameBoards
    /\ score = 0
    /\ last = "__init__"
    /\ ret = 0
    /\ legal = {}
    /\ over = FALSE
    /\ new_tile = 0
    /\ err = "none"
    /\ old_board = EmptyBoard
    /\ old_score = 0
    /\ left = MaxIters
    /\ NoAgent

SpecPlay == InitPlay /\ [][play]_vars

\* Rows of the boards the loop is entered with in mid-game: empty, compact,
\* four of a kind, and two rows that alternate.
PlayLines ==
    { <<0, 0, 0, 0>>, <<2, 4, 0, 0>>, <<2, 2, 2, 2>>, <<2, 4, 2, 4>>,
      <<4, 2, 4, 2>> }

\* The loop in mid-game: boards a run of spawn_tile calls can have left,
\* among them full boards that still allow a move.
InitPlayAny ==
    /\ board \in {b \in [Idx -> PlayLines] : TileCount(b) >= 2}
    /\ score = 0
    /\ last = "__init__"
    /\ ret = 0
    /\ legal = {}
    /\ over = FALSE
    /\ new_tile = 0
    /\ err = "none"
    /\ old_board = EmptyBoard
    /\ old_score = 0
    /\ left = MaxIters
    /\ NoAgent

SpecPlayAny == InitPlayAny /\ [][play]_vars

-----------------------------------------------------------------------------
(* The agents: src/tdlearningagent.py, src/Experimental_TDLearning_Agent.py *)
(* and generateSuccessor of src/expectimax_agent.py                         *)

\* The three modules that define an agent class.
Base == "tdlearningagent"
Experimental == "Experimental_TDLearning_Agent"
Expectimax == "expectimax_agent"

\* The four strings the agents dispatch on.
Actions == {"LEFT", "RIGHT", "UP", "DOWN"}

\* self.ntuples_6 (self.ntuples of tdlearningagent.py): coordinate (x, y)
\* is <<x + 1, y + 1>> here.
ntuples_6 ==
    << << <<1, 1>>, <<1, 2>>, <<1, 3>>, <<2, 1>>, <<2, 2>>, <<2, 3>> >>,
       << <<1, 2>>, <<1, 3>>, <<2, 2>>, <<2, 3>>, <<3, 2>>, <<4, 2>> >>,
       << <<1, 1>>, <<1, 2>>, <<1, 3>>, <<1, 4>>, <<2, 1>>, <<2, 2>> >>,
       << <<1, 1>>, <<1, 2>>, <<2, 2>>, <<2, 3>>, <<2, 4>>, <<3, 3>> >>,
       << <<1, 1>>, <<1, 2>>, <<1, 3>>, <<2, 2>>, <<3, 2>>, <<3, 3>> >>,
       << <<1, 1>>, <<1, 2>>, <<2, 2>>, <<3, 2>>, <<4, 2>>, <<4, 3>> >>,
       << <<1, 1>>, <<1, 2>>, <<2, 2>>, <<3, 1>>, <<3, 2>>, <<4, 2>> >>,
       << <<1, 1>>, <<1, 2>>, <<1, 3>>, <<2, 1>>, <<2, 3>>, <<3, 3>> >> >>

\* self.ntuples_8
ntuples_8 ==
    << << <<1, 1>>, <<1, 2>>, <<1, 3>>, <<1, 4>>, <<2, 1>>, <<2, 2>>, <<2, 3>>, <<2, 4>> >>,
       << <<3, 1>>, <<3, 2>>, <<3, 3>>, <<3, 4>>, <<4, 1>>, <<4, 2>>, <<4, 3>>, <<4, 4>> >>,
       << <<1, 1>>, <<2, 1>>, <<3, 1>>, <<4, 1>>, <<1, 2>>, <<2, 2>>, <<3, 2>>, <<4, 2>> >>,
       << <<1, 3>>, <<2, 3>>, <<3, 3>>, <<4, 3>>, <<1, 4>>, <<2, 4>>, <<3, 4>>, <<4, 4>> >>,
       << <<1, 1>>, <<1, 2>>, <<1, 3>>, <<2, 1>>, <<3, 1>>, <<4, 1>>, <<2, 2>>, <<3, 2>> >>,
       << <<1, 1>>, <<2, 1>>, <<3, 1>>, <<4, 1>>, <<4, 2>>, <<4, 3>>, <<3, 2>>, <<2, 2>> >>,
       << <<1, 4>>, <<1, 3>>, <<1, 2>>, <<2, 4>>, <<3, 4>>, <<4, 4>>, <<2, 3>>, <<3, 3>> >>,
       << <<4, 4>>, <<3, 4>>, <<2, 4>>, <<1, 4>>, <<4, 3>>, <<4, 2>>, <<3, 3>>, <<2, 3>> >>,
       << <<1, 1>>, <<1, 2>>, <<2, 1>>, <<2, 2>>, <<2, 3>>, <<3, 2>>, <<3, 3>>, <<4, 3>> >>,
       << <<1, 4>>, <<1, 3>>, <<2, 4>>, <<2, 3>>, <<2, 2>>, <<3, 3>>, <<3, 2>>, <<4, 2>> >> >>

\* self.ntuples of the agent class of module a.
ntuples(a) == IF a = Experimental THEN ntuples_6 \o ntuples_8 ELSE ntuples_6

\* Game.copy(): a new game with the same score and a board of new rows that
\* hold the same values. The field shares says what the copy has in common
\* with the original: "nothing" for this deep clone; "rows" would be a new
\* outer list of the same row lists, "board" the same board list, "object"
\* the same object.
copy(g) == [board |-> g.board, score |-> g.score, shares |-> "nothing"]

\* What an object that shares `shares` with another reads once the other
\* has gone from nothing written to `after`: move_left and move_right rebind
\* whole rows of the outer list, move_up, move_down and spawn_tile write
\* cells of the rows (cellwise), and every move rebinds score.
Seen(shares, before, after, cellwise) ==
    CASE shares = "nothing" -> before
      [] shares = "rows" ->
            IF cellwise THEN GameOf(after.board, before.score) ELSE before
      [] shares = "board" -> GameOf(after.board, before.score)
      [] shares = "object" -> after

\* rotated.board = [list(reversed(col)) for col in zip(*rotated.board)]
RotateOnce(b) == [y \in Idx |-> [k \in Idx |-> Column(b, y)[Size + 1 - k]]]

RECURSIVE RotateTimes(_, _)
\* for _ in range(n): one rotation each
RotateTimes(b, n) == IF n = 0 THEN b ELSE RotateTimes(RotateOnce(b), n - 1)

\* Fault: rotate without reversed(): the transpose of the board.
rotate_transpose(state, n) ==
    LET rotated == copy(state)
        RECURSIVE Times(_, _)
        Times(b, k) == IF k = 0 THEN b
                       ELSE Times([y \in Idx |-> Column(b, y)], k - 1)
    IN  GameOf(Times(rotated.board, n), rotated.score)

\* TdLearningAgent.rotate
rotate(state, n) ==
    LET rotated == copy(state)
    IN  GameOf(RotateTimes(rotated.board, n), rotated.score)

\* TdLearningAgent.mirror: mirrored.board = mirrored.board[::-1]
mirror(state) ==
    LET mirrored == copy(state)
    IN  GameOf([x \in Idx |-> mirrored.board[Size + 1 - x]], mirrored.score)

\* Fault: symmetries without the mirrored boards: each rotation twice.
symmetries_without_mirror(state) ==
    LET both(i) == <<rotate(state, i), rotate(state, i)>>
    IN  <<state, state>> \o both(1) \o both(2) \o both(3)

\* TdLearningAgent.symmetries: the state itself, its mirror, and for i in
\* range(1, 4) the state rotated i times and the mirror of that.
symmetries(state) ==
    LET both(i) == <<rotate(state, i), mirror(rotate(state, i))>>
    IN  <<state, mirror(state)>> \o both(1) \o both(2) \o both(3)

\* The exception compute_afterstate raises for any other action string.
InvalidMoveError(action) == "ValueError: Invalid move: " \o action

\* Fault: compute_afterstate returning the state it was given in place of
\* the afterstate.
compute_afterstate_returns_state(state, action) ==
    LET afterstate == copy(state)
        m == IF action = "LEFT" THEN MoveLeft(afterstate.board)
             ELSE IF action = "RIGHT" THEN MoveRight(afterstate.board)
             ELSE IF action = "UP" THEN MoveUp(afterstate.board)
             ELSE MoveDown(afterstate.board)
    IN  IF action \in Actions
        THEN [afterstate |-> state, reward |-> m.new_score,
              state |-> state, err |-> "none"]
        ELSE [afterstate |-> state, reward |-> 0,
              state |-> state, err |-> InvalidMoveError(action)]

\* Fault: compute_afterstate moving the state it was given, without copy().
compute_afterstate_in_place(state, action) ==
    LET m == IF action = "LEFT" THEN MoveLeft(state.board)
             ELSE IF action = "RIGHT" THEN MoveRight(state.board)
             ELSE IF action = "UP" THEN MoveUp(state.board)
             ELSE MoveDown(state.board)
        moved == GameOf(m.board, AddScore(state.score, m.new_score))
    IN  IF action \in Actions
        THEN [afterstate |-> moved, reward |-> m.new_score,
              state |-> moved, err |-> "none"]
        ELSE [afterstate |-> state, reward |-> 0,
              state |-> state, err |-> InvalidMoveError(action)]

\* TdLearningAgent.compute_afterstate, without the printing of its else
\* branch: the afterstate, the reward, the state as the caller finds it
\* afterwards, and the exception raised.
compute_afterstate(state, action) ==
    LET afterstate == copy(state)
        m == IF action = "LEFT" THEN MoveLeft(afterstate.board)
             ELSE IF action = "RIGHT" THEN MoveRight(afterstate.board)
             ELSE IF action = "UP" THEN MoveUp(afterstate.board)
             ELSE MoveDown(afterstate.board)
        moved == GameOf(m.board, AddScore(afterstate.score, m.new_score))
    IN  IF action \in Actions
        THEN [afterstate |-> moved, reward |-> m.new_score,
              state |-> Seen(afterstate.shares, state, moved,
                             action \in {"UP", "DOWN"}),
              err |-> "none"]
        ELSE [afterstate |-> state, reward |-> 0,
              state |-> state, err |-> InvalidMoveError(action)]

\* The set of the one value, computed in full.
Computed(value) == {v \in {value} : v = v}

\* An assignment name = value: the value is computed once, and F is what
\* the code after the assignment computes from the name.
Once(value, F(_)) == CHOOSE r \in {F(name) : name \in Computed(value)} : TRUE

\* tuple([state.board[x][y] for x, y in ntuple])
Feature(ntuple, state) ==
    [k \in 1..Len(ntuple) |-> state.board[ntuple[k][1]][ntuple[k][2]]]

\* TdLearningAgent.evaluate_feature: the weight of the feature, and the
\* table with the feature entered as 0 when it was absent.
evaluate_feature(lut, ntuple, state) ==
    LET feature == Feature(ntuple, state)
        table == lut[ntuple]
        entered == IF feature \in DOMAIN table THEN table
                   ELSE [f \in DOMAIN table \cup {feature} |->
                            IF f = feature THEN 0 ELSE table[f]]
    IN  [weight |-> entered[feature],
         LUT |-> [lut EXCEPT ![ntuple] = entered]]

RECURSIVE NtupleLoop(_, _, _, _)
\* for ntuple in self.ntuples: value += self.evaluate_feature(ntuple, s),
\* from the k-th n-tuple on.
NtupleLoop(lut, s, nts, k) ==
    IF k > Len(nts) THEN 0
    ELSE evaluate_feature(lut, nts[k], s).weight + NtupleLoop(lut, s, nts, k + 1)

RECURSIVE StateLoop(_, _, _, _)
\* for s in states: the loop over the n-tuples, from the i-th state on. A
\* feature entered along the way has the weight 0 its absence stands for,
\* so every pass reads the table the loop began with.
StateLoop(lut, states, nts, i) ==
    IF i > Len(states) THEN 0
    ELSE NtupleLoop(lut, states[i], nts, 1) + StateLoop(lut, states, nts, i + 1)

\* self.LUT once evaluate_feature has run for every state and n-tuple: each
\* feature read is entered with weight 0 where it was absent.
Entered(lut, states, nts) ==
    [ntuple \in DOMAIN lut |->
        IF ntuple \in {nts[k] : k \in 1..Len(nts)}
        THEN LET read == {Feature(ntuple, states[i]) : i \in 1..Len(states)}
             IN  [f \in DOMAIN lut[ntuple] \cup read |->
                    IF f \in DOMAIN lut[ntuple] THEN lut[ntuple][f] ELSE 0]
        ELSE lut[ntuple]]

\* Fault: evaluate_state over the state alone, without its symmetries.
evaluate_state_unrotated(lut, state, nts) ==
    Once(<<state>>, LAMBDA states :
        [value |-> StateLoop(lut, states, nts, 1),
         LUT |-> Entered(lut, states, nts)])

\* TdLearningAgent.evaluate_state (both modules: the experimental one has
\* evaluate_feature written out in the loop body).
evaluate_state(lut, state, nts) ==
    Once(symmetries(state), LAMBDA states :
        [value |-> StateLoop(lut, states, nts, 1),
         LUT |-> Entered(lut, states, nts)])

\* TdLearningAgent.evaluate_action of tdlearningagent.py, for one of the
\* four actions.
evaluate_action(lut, state, action, nts) ==
    Once(compute_afterstate(state, action), LAMBDA c :
        Once(evaluate_state(lut, c.afterstate, nts), LAMBDA e :
            [value |-> c.reward + e.value, LUT |-> e.LUT, state |-> c.state]))

RECURSIVE MaxScan(_, _, _, _)
\* for i in range(4): for j in range(4): if board[i][j] > max_tile: ...
\* k counts the cells visited so far.
MaxScan(b, k, max_tile, max_pos) ==
    IF k = 16 THEN [max_tile |-> max_tile, max_pos |-> max_pos]
    ELSE LET i == (k \div 4) + 1
             j == (k % 4) + 1
         IN  IF b[i][j] > max_tile
             THEN MaxScan(b, k + 1, b[i][j], <<i, j>>)
             ELSE MaxScan(b, k + 1, max_tile, max_pos)

\* TdLearningAgent._tile_bonus for the tiles its table lists; for a larger
\* tile the code computes a float, which no board of this model asks for.
TileBonus(max_tile) ==
    CASE max_tile = 1024 -> 200
      [] max_tile = 2048 -> 2800
      [] max_tile = 4096 -> 15300

\* TdLearningAgent.evaluate_action of Experimental_TDLearning_Agent.py.
Experimental_evaluate_action(lut, state, action, nts) ==
    Once(compute_afterstate(state, action), LAMBDA c :
        LET scan == MaxScan(c.afterstate.board, 0, 0, <<1, 1>>)
            max_tile == scan.max_tile
            corner == scan.max_pos \in {<<1, 1>>, <<1, 4>>, <<4, 1>>, <<4, 4>>}
            bonus == (IF corner /\ max_tile >= 256 THEN max_tile \div 2 ELSE 0)
                     + (IF max_tile >= 1024 THEN TileBonus(max_tile) ELSE 0)
            penalty == IF ~corner /\ max_tile >= 512
                       THEN -((max_tile * 4) \div 5) ELSE 0
        IN  Once(evaluate_state(lut, c.afterstate, nts), LAMBDA e :
                [value |-> c.reward + bonus + penalty + e.value,
                 LUT |-> e.LUT, state |-> c.state]))

\* self.evaluate_action of the agent class of module a.
self_evaluate_action(a, lut, state, action) ==
    IF a = Experimental
    THEN Experimental_evaluate_action(lut, state, action, ntuples(a))
    ELSE evaluate_action(lut, state, action, ntuples(a))

\* self.m / self.learning_rate: 8 / 0.1 in tdlearningagent.py and
\* 18 / 0.005 in the experimental module, so that learning_rate / m is
\* 1 / StepDivisor.
StepDivisor(a) == IF a = Experimental THEN 3600 ELSE 80

\* A number a weight or a value can be: the tuple of its digits, n[1] the
\* whole part and n[i + 1] the count of 1 / StepDivisor^i. A weight has its
\* whole part in LUT and the digits below it in fractions, one table per
\* digit, where a feature without an entry has the digit 0.
Digit(n, i) == IF i <= Len(n) THEN n[i] ELSE 0

RECURSIVE PlusFrom(_, _, _)
PlusFrom(n, k, i) ==
    IF i > Len(n) /\ i > Len(k) THEN <<>>
    ELSE <<Digit(n, i) + Digit(k, i)>> \o PlusFrom(n, k, i + 1)

\* n + k
Plus(n, k) == PlusFrom(n, k, 1)

\* -n
Negative(n) == [i \in 1..Len(n) |-> 0 - n[i]]

\* Fault: a step of the whole difference, not divided.
Divided_by_one(n) == n \o <<0>>

\* n / StepDivisor
Divided(n) == <<0>> \o n

RECURSIVE NormalFrom(_, _, _)
\* The same number with the digits from position i down to the second in
\* -D/2 .. D/2 - 1, what exceeds them carried into the digit above.
NormalFrom(n, D, i) ==
    IF i <= 1 THEN n
    ELSE LET r == ((n[i] + D \div 2) % D) - D \div 2
             q == (n[i] - r) \div D
         IN  NormalFrom([n EXCEPT ![i] = r, ![i - 1] = n[i - 1] + q], D, i - 1)

\* The one tuple of digits in -D/2 .. D/2 - 1 below the whole part that is
\* the number n: two numbers in this form compare digit by digit.
Normal(n, D) == NormalFrom(n, D, Len(n))

RECURSIVE GreaterFrom(_, _, _)
GreaterFrom(n, k, i) ==
    IF i > Len(n) /\ i > Len(k) THEN FALSE
    ELSE IF Digit(n, i) # Digit(k, i) THEN Digit(n, i) > Digit(k, i)
    ELSE GreaterFrom(n, k, i + 1)

\* n > k, for two numbers in normal form
Greater(n, k) == GreaterFrom(n, k, 1)

\* evaluate_state with the weights in full: the sum is taken digit by
\* digit, evaluate_state on the table of each digit.
ExactValue(lut, fr, state, nts) ==
    <<evaluate_state(lut, state, nts).value>>
    \o [i \in 1..Len(fr) |-> evaluate_state(fr[i], state, nts).value]

\* The orders in which a loop can visit the members of a Python set.
Orders(S) ==
    {o \in [1..Cardinality(S) -> S] :
        \A i, j \in 1..Cardinality(S) : i # j => o[i] # o[j]}

\* self.LUT after evaluate_action has run for every action of evals, in
\* any order: the features each run entered, with the weight 0.
EnteredBy(lut, evals) ==
    [ntuple \in DOMAIN lut |->
        [f \in UNION {DOMAIN evals[m].LUT[ntuple] : m \in DOMAIN evals} \cup
                DOMAIN lut[ntuple] |->
            IF f \in DOMAIN lut[ntuple] THEN lut[ntuple][f] ELSE 0]]

\* What evaluate_action returns for each of the actions, with the value in
\* full (the digits below the whole part come from fr). It changes
\* self.LUT only by entering absent features with the weight 0 their
\* absence stands for, so in a loop over the actions each call returns
\* what it returns on the table the loop began with.
Evaluations(a, lut, fr, state, actions) ==
    [m \in actions |->
        LET e == self_evaluate_action(a, lut, state, m)
            below == [i \in 1..Len(fr) |->
                        evaluate_state(fr[i],
                                       compute_afterstate(state, m).afterstate,
                                       ntuples(a)).value]
        IN  [value |-> Normal(<<e.value>> \o below, StepDivisor(a)),
             LUT |-> e.LUT, state |-> e.state]]

RECURSIVE BestLoop(_, _, _, _)
\* for action in state.get_legal_moves(): value = evaluate_action(...);
\* if value > best[1]: best = (action, value)
BestLoop(evals, order, k, best) ==
    IF k > Len(order) THEN best
    ELSE BestLoop(evals, order, k + 1,
                  IF Greater(evals[order[k]].value, best.value)
                  THEN [action |-> order[k], value |-> evals[order[k]].value]
                  ELSE best)

\* best = ("NULL", -999999)
NoBest == [action |-> "NULL", value |-> <<-999999>>]

\* The state a loop of evaluate_action calls leaves: the one its last call
\* left.
StateAfter(evals, order, state) ==
    IF order = <<>> THEN state ELSE evals[order[Len(order)]].state

\* The loop of get_best_action, visiting the legal moves in the given
\* order: the action returned and the state afterwards.
get_best_action(evals, state, order) ==
    [action |-> BestLoop(evals, order, 1, NoBest).action,
     state |-> StateAfter(evals, order, state)]

\* max(max(row) for row in b)
MaxTile(b) ==
    CHOOSE v \in {b[x][y] : x \in Idx, y \in Idx} :
        \A x \in Idx, y \in Idx : b[x][y] <= v

\* What make_move of Experimental_TDLearning_Agent.py adds to the reward.
MaxTileReward(max_before, max_after) ==
    IF max_after > max_before
    THEN (IF max_after >= 1024 THEN max_after ELSE 0)
         + (IF max_after = 2048 THEN 2048
            ELSE IF max_after = 4096 THEN 8192
            ELSE IF max_after = 8192 THEN 32768 ELSE 0)
    ELSE 0

\* Fault: make_move spawning on the afterstate itself, without copy().
make_move_no_copy(a, state, action) ==
    LET c == compute_afterstate(state, action)
        reward == IF a = Experimental
                  THEN c.reward + MaxTileReward(MaxTile(c.state.board),
                                                MaxTile(c.afterstate.board))
                  ELSE c.reward
        empty_tiles == get_empty_tiles(c.afterstate.board)
        none == GameOf(EmptyBoard, 0)
    IN  IF c.err # "none"
        THEN {[reward |-> 0, afterstate |-> none, next_state |-> none,
               state |-> c.state, new_tile |-> 0, err |-> c.err]}
        ELSE IF empty_tiles = {}
        THEN {[reward |-> 0, afterstate |-> none, next_state |-> none,
               state |-> c.state, new_tile |-> t, err |-> BoardFullError] :
              t \in NewTileValues}
        ELSE {[reward |-> reward,
               afterstate |-> GameOf(PlaceTile(c.afterstate.board, p[1], p[2]),
                                     c.afterstate.score),
               next_state |-> GameOf(PlaceTile(c.afterstate.board, p[1], p[2]),
                                     c.afterstate.score),
               state |-> c.state, new_tile |-> p[2], err |-> "none"] :
              p \in empty_tiles \X NewTileValues}

\* TdLearningAgent.make_move of the agent class of module a: every outcome
\* the spawn can have, each with the state as the caller finds it
\* afterwards and the exception raised.
make_move(a, state, action) ==
    LET c == compute_afterstate(state, action)
        reward == IF a = Experimental
                  THEN c.reward + MaxTileReward(MaxTile(c.state.board),
                                                MaxTile(c.afterstate.board))
                  ELSE c.reward
        next_state == copy(c.afterstate)
        empty_tiles == get_empty_tiles(next_state.board)
        none == GameOf(EmptyBoard, 0)
    IN  IF c.err # "none"
        THEN {[reward |-> 0, afterstate |-> none, next_state |-> none,
               state |-> c.state, new_tile |-> 0, err |-> c.err]}
        ELSE IF empty_tiles = {}
        THEN {[reward |-> 0, afterstate |-> none, next_state |-> none,
               state |-> c.state, new_tile |-> t, err |-> BoardFullError] :
              t \in NewTileValues}
        ELSE {LET spawned == GameOf(PlaceTile(next_state.board, p[1], p[2]),
                                    next_state.score)
              IN  [reward |-> reward,
                   afterstate |-> Seen(next_state.shares, c.afterstate,
                                       spawned, TRUE),
                   next_state |-> spawned,
                   state |-> c.state, new_tile |-> p[2], err |-> "none"] :
              p \in empty_tiles \X NewTileValues}

\* Fault: generateSuccessor moving the game it was given, without copy().
generateSuccessor_in_place(game, move) ==
    LET m == IF move = "LEFT" THEN MoveLeft(game.board)
             ELSE IF move = "RIGHT" THEN MoveRight(game.board)
             ELSE IF move = "UP" THEN MoveUp(game.board)
             ELSE MoveDown(game.board)
        moved == GameOf(m.board, AddScore(game.score, m.new_score))
    IN  IF move \in Actions
        THEN [new_game |-> moved, game |-> moved]
        ELSE [new_game |-> game, game |-> game]

\* ExpectimaxAgent.generateSuccessor: the new game, and the game as the
\* caller finds it afterwards.
generateSuccessor(game, move) ==
    LET new_game == copy(game)
        m == IF move = "LEFT" THEN MoveLeft(new_game.board)
             ELSE IF move = "RIGHT" THEN MoveRight(new_game.board)
             ELSE IF move = "UP" THEN MoveUp(new_game.board)
             ELSE MoveDown(new_game.board)
        moved == GameOf(m.board, AddScore(new_game.score, m.new_score))
    IN  IF move \in Actions
        THEN [new_game |-> moved,
              game |-> Seen(new_game.shares, game, moved,
                            move \in {"UP", "DOWN"})]
        ELSE [new_game |-> GameOf(new_game.board, new_game.score),
              game |-> game]

-----------------------------------------------------------------------------
(* One action per agent method, called on the game of the state *)

\* The game the methods are called on.
State == GameOf(board, score)

\* A behaviour is one agent method called on a sampled game and table.
NotCalled == last = "__init__"

\* What every agent call does: the game as the caller finds it afterwards,
\* the lookup table afterwards, the values returned and the exception.
AgentCall(name, state_after, lut_after, res, e) ==
    /\ UNCHANGED left
    /\ last' = name
    /\ old_board' = board
    /\ old_score' = score
    /\ old_LUT' = LUT
    /\ board' = state_after.board
    /\ score' = state_after.score
    /\ LUT' = lut_after
    /\ result' = res
    /\ err' = e
    /\ ret' = 0
    /\ legal' = {}
    /\ over' = FALSE
    /\ UNCHANGED <<agent, episodeVars, searchVars>>

TdAgents == {Base, Experimental}

CallSymmetries ==
    /\ NotCalled
    /\ agent \in TdAgents
    /\ new_tile' = 0
    /\ AgentCall("symmetries", State, LUT,
                 [NoResult EXCEPT !.states =
                    [k \in 1..Len(symmetries(State)) |->
                        symmetries(State)[k].board]],
                 "none")

CallEvaluateState ==
    /\ NotCalled
    /\ agent \in TdAgents
    /\ new_tile' = 0
    /\ LET e == evaluate_state(LUT, State, ntuples(agent))
       IN  AgentCall("evaluate_state", State, e.LUT,
                     [NoResult EXCEPT !.value = e.value], "none")

CallEvaluateAction ==
    /\ NotCalled
    /\ agent \in TdAgents
    /\ new_tile' = 0
    /\ \E action \in Actions :
        LET e == self_evaluate_action(agent, LUT, State, action)
        IN  AgentCall("evaluate_action", e.state, e.LUT,
                      [NoResult EXCEPT !.arg = action, !.value = e.value],
                      "none")

\* compute_afterstate; for any other action string its else branch runs
\* evaluate_action for every legal move before it raises.
CallComputeAfterstate ==
    /\ NotCalled
    /\ agent \in TdAgents
    /\ new_tile' = 0
    /\ \E action \in Actions \cup {"NULL"} :
        LET c == compute_afterstate(State, action)
        IN  \/ /\ c.err = "none"
               /\ AgentCall("compute_afterstate", c.state, LUT,
                            [NoResult EXCEPT !.arg = action,
                                             !.afterstate = c.afterstate,
                                             !.reward = c.reward],
                            "none")
            \/ /\ c.err # "none"
               /\ \E evals \in Computed(Evaluations(agent, LUT, fractions,
                                                    State, LegalMoves(board))) :
                  \E entered \in Computed(EnteredBy(LUT, evals)) :
                  \E order \in Orders(LegalMoves(board)) :
                    AgentCall("compute_afterstate",
                              StateAfter(evals, order, State), entered,
                              [NoResult EXCEPT !.arg = action], c.err)

CallMakeMove ==
    /\ NotCalled
    /\ agent \in TdAgents
    /\ \E action \in Actions \cup {"NULL"} :
        \E r \in make_move(agent, State, action) :
            /\ new_tile' = r.new_tile
            /\ AgentCall("make_move", r.state, LUT,
                         [NoResult EXCEPT !.arg = action,
                                          !.reward = r.reward,
                                          !.afterstate = r.afterstate,
                                          !.next_state = r.next_state],
                         r.err)

\* get_best_action: the loop over the legal moves, which both modules have;
\* before it, the experimental module returns random.choice(legal_moves)
\* when explore holds and random.random() < self.epsilon.
CallGetBestAction ==
    /\ NotCalled
    /\ agent \in TdAgents
    /\ new_tile' = 0
    /\ \/ \E evals \in Computed(Evaluations(agent, LUT, fractions, State,
                                             LegalMoves(board))) :
          \E entered \in Computed(EnteredBy(LUT, evals)) :
          \E order \in Orders(LegalMoves(board)) :
            LET g == get_best_action(evals, State, order)
            IN  AgentCall("get_best_action", g.state, entered,
                          [NoResult EXCEPT !.arg = "greedy",
                                           !.action = g.action],
                          "none")
       \/ /\ agent = Experimental
          /\ LegalMoves(board) # {}
          /\ \E choice \in LegalMoves(board) :
                AgentCall("get_best_action", State, LUT,
                          [NoResult EXCEPT !.arg = "explore",
                                           !.action = choice],
                          "none")
       \/ /\ agent = Experimental
          /\ LegalMoves(board) = {}
          /\ AgentCall("get_best_action", State, LUT,
                       [NoResult EXCEPT !.arg = "explore"],
                       "IndexError: Cannot choose from an empty sequence")

CallGenerateSuccessor ==
    /\ NotCalled
    /\ agent = Expectimax
    /\ new_tile' = 0
    /\ \E move \in Actions \cup {"NULL"} :
        LET g == generateSuccessor(State, move)
        IN  AgentCall("generateSuccessor", g.game, LUT,
                      [NoResult EXCEPT !.arg = move,
                                       !.afterstate = g.new_game],
                      "none")

NextAgent ==
    \/ CallSymmetries
    \/ CallEvaluateState
    \/ CallEvaluateAction
    \/ CallComputeAfterstate
    \/ CallMakeMove
    \/ CallGetBestAction
    \/ CallGenerateSuccessor

-----------------------------------------------------------------------------
(* The games and lookup tables the agent methods are called with *)

\* The first row of a sampled game: empty, one pair, two rows that
\* alternate, and rows that hold a 256, a 512 and a 1024 tile.
AgentLines ==
    { <<0, 0, 0, 0>>, <<2, 2, 0, 0>>, <<2, 4, 2, 4>>, <<4, 2, 4, 2>>,
      <<256, 4, 4, 2>>, <<2, 512, 0, 0>>, <<0, 0, 2, 1024>> }

\* The second row of a sampled game.
AgentSecondLines == { <<0, 0, 0, 0>>, <<2, 2, 0, 0>>, <<4, 2, 4, 2>> }

\* The last two rows of a sampled game: empty, alternating, one pair.
AgentLowerRows ==
    { << <<0, 0, 0, 0>>, <<0, 0, 0, 0>> >>,
      << <<2, 4, 2, 4>>, <<4, 2, 4, 2>> >>,
      << <<0, 0, 0, 0>>, <<2, 2, 0, 0>> >> }

AgentBoards ==
    {<<r1, r2>> \o low : r1 \in AgentLines, r2 \in AgentSecondLines,
                         low \in AgentLowerRows}

RECURSIVE TileScore(_)
\* The score that building one tile from spawned 2s has added.
TileScore(v) == IF v <= 2 THEN 0 ELSE v + 2 * TileScore(v \div 2)

RECURSIVE BoardScore(_, _)
\* The score of a game whose tiles were all built from spawned 2s; k counts
\* the cells added so far.
BoardScore(b, k) ==
    IF k = Size * Size THEN 0
    ELSE TileScore(b[(k \div Size) + 1][(k % Size) + 1]) + BoardScore(b, k + 1)

\* for ntuple in self.ntuples: self.LUT[ntuple] = {}
FreshLUT(a) ==
    [ntuple \in {ntuples(a)[k] : k \in 1..Len(ntuples(a))} |-> [f \in {} |-> 0]]

\* The afterstates of one game, whose features the sampled tables hold.
SeenBoards ==
    LET b == << <<0, 0, 0, 0>>, <<2, 2, 0, 0>>, <<0, 0, 0, 0>>, <<0, 0, 0, 0>> >>
    IN  {MoveLeft(b).board, MoveRight(b).board, MoveUp(b).board, MoveDown(b).board}

\* The features an n-tuple reads on the symmetries of the seen boards.
SeenFeatures(ntuple) ==
    {Feature(ntuple, symmetries(GameOf(b, 0))[k]) : b \in SeenBoards, k \in 1..8}

\* A table after learning: small weights of both signs.
TrainedLUT(a) ==
    [ntuple \in DOMAIN FreshLUT(a) |->
        [f \in SeenFeatures(ntuple) |-> ((f[1] + f[2] + Len(ntuple)) % 5) - 2]]

\* A table load_agent or load_model can read from a file: weights far
\* below zero.
LowLUT(a) ==
    [ntuple \in DOMAIN FreshLUT(a) |->
        [f \in SeenFeatures(ntuple) |-> -1000000]]

\* An agent object, and a game in the middle of play.
InitAgent ==
    /\ agent \in {Base, Experimental, Expectimax}
    /\ LUT \in IF agent = Expectimax THEN {<<>>}
               ELSE {FreshLUT(agent), TrainedLUT(agent), LowLUT(agent)}
    /\ old_LUT = LUT
    /\ result = NoResult
    /\ NoEpisode
    /\ NoSearch
    /\ board \in AgentBoards
    /\ score = BoardScore(board, 0)
    /\ last = "__init__"
    /\ ret = 0
    /\ legal = {}
    /\ over = FALSE
    /\ new_tile = 0
    /\ err = "none"
    /\ old_board = EmptyBoard
    /\ old_score = 0
    /\ left = 0

SpecAgent == InitAgent /\ [][NextAgent]_vars

-----------------------------------------------------------------------------
(* The training episode: learn_evaluation and play_game of both modules *)

\* The digit table holds for feature f: 0 where it has no entry.
DigitOf(table, f) == IF f \in DOMAIN table THEN table[f] ELSE 0

\* self.LUT[ntuple][feature] in full, for a feature LUT has an entry for.
WeightOf(lut, fr, ntuple, f) ==
    <<lut[ntuple][f]>> \o [i \in 1..Len(fr) |-> DigitOf(fr[i][ntuple], f)]

\* The table of one digit with the digit of feature f set.
WithDigit(table, f, d) ==
    [h \in DOMAIN table \cup {f} |-> IF h = f THEN d ELSE table[h]]

\* The tables of the digits below the whole part once written[ntuple] has
\* been assigned to the feature each n-tuple reads on the afterstate.
FractionsWith(fr, written, afterstate) ==
    [i \in 1..(Len(fr) + 1) |->
        [ntuple \in DOMAIN written |->
            WithDigit(IF i <= Len(fr) THEN fr[i][ntuple] ELSE <<>>,
                      Feature(ntuple, afterstate),
                      Digit(written[ntuple], i + 1))]]

\* The actions the loop of get_best_action can return, over the orders in
\* which it can visit the legal moves.
BestActions(evals, state) ==
    {get_best_action(evals, state, order).action : order \in Orders(DOMAIN evals)}

\* TdLearningAgent.learn_evaluation of the agent class of module a (the
\* experimental module passes explore=False, which leaves the loop of
\* get_best_action): every outcome over the orders of that loop, each the
\* lookup table afterwards, next_action and the exception raised.
learn_evaluation(a, lut, fr, afterstate, next_state) ==
    Once(Evaluations(a, lut, fr, next_state, LegalMoves(next_state.board)),
         LAMBDA evals :
    Once(Entered(EnteredBy(lut, evals), symmetries(afterstate), ntuples(a)),
         LAMBDA read :
    {IF next_action \notin Actions
     THEN [LUT |-> EnteredBy(lut, evals), fractions |-> fr,
           next_action |-> next_action, err |-> InvalidMoveError(next_action)]
     ELSE
        Once(compute_afterstate(next_state, next_action), LAMBDA c :
        Once(Divided(Plus(<<c.reward>>,
                          Plus(ExactValue(lut, fr, c.afterstate, ntuples(a)),
                               Negative(ExactValue(lut, fr, afterstate,
                                                   ntuples(a)))))),
             LAMBDA step :
        Once(Entered(read, symmetries(c.afterstate), ntuples(a)),
             LAMBDA entered :
        Once([ntuple \in DOMAIN lut |->
                Normal(Plus(WeightOf(entered, fr, ntuple,
                                     Feature(ntuple, afterstate)),
                            step),
                       StepDivisor(a))],
             LAMBDA written :
            [LUT |-> [ntuple \in DOMAIN lut |->
                        [entered[ntuple] EXCEPT
                            ![Feature(ntuple, afterstate)] = written[ntuple][1]]],
             fractions |-> FractionsWith(fr, written, afterstate),
             next_action |-> next_action, err |-> "none"]))))
     : next_action \in BestActions(evals, next_state)}))

\* Where play_game is: `last` is "play_game" at the test of its while loop,
\* "learn" inside the for loop over the reversed history, "return" once it
\* has returned and "raise" once an exception has left it.

\* Fault: learning from every transition, the one that ends the game too.
ShouldLearnFromAll(lrn, next_state) == lrn

\* if self.learn: if not next_state.is_game_over():
ShouldLearn(lrn, next_state) == lrn /\ ~GameOver(next_state.board)

\* Fault: the history in the order it was recorded.
reversed_in_order(h) == h

\* list(reversed(history))
reversed(h) == [i \in 1..Len(h) |-> h[Len(h) + 1 - i]]

\* What a learn_evaluation call adds to the log: its arguments, the table
\* it was made on and what it chose.
Learned(afterstate, next_state, l) ==
    [afterstate |-> afterstate, next_state |-> next_state,
     LUT |-> LUT, fractions |-> fractions,
     next_action |-> l.next_action, err |-> l.err]

\* What get_best_action(state) of play_game can return, with the table it
\* leaves: the loop over the legal moves, and in the experimental module,
\* where explore holds, random.choice(legal_moves) before any evaluation.
Chosen(evals, entered) ==
    [action : BestActions(evals, State), LUT : {entered}]
    \cup (IF agent = Experimental
          THEN [action : LegalMoves(board), LUT : {LUT}] ELSE {})

\* One iteration of the while loop of play_game: get_best_action,
\* make_move, history.append in tdlearningagent.py and learn_evaluation in
\* the experimental module, then state = next_state.
play_game_loop ==
    /\ last = "play_game"
    /\ ~GameOver(board)
    /\ left > 0
    /\ left' = left - 1
    /\ old_board' = board
    /\ old_score' = score
    /\ ret' = 0
    /\ legal' = {}
    /\ over' = FALSE
    /\ UNCHANGED <<agent, old_LUT, learn, searchVars>>
    /\ \E evals \in Computed(Evaluations(agent, LUT, fractions, State,
                                         LegalMoves(board))) :
       \E entered \in Computed(EnteredBy(LUT, evals)) :
       \E chosen \in Chosen(evals, entered) :
       \E r \in make_move(agent, State, chosen.action) :
        /\ new_tile' = r.new_tile
        /\ result' = [NoResult EXCEPT !.action = chosen.action,
                                      !.reward = r.reward,
                                      !.afterstate = r.afterstate,
                                      !.next_state = r.next_state]
        /\ IF r.err # "none"
           THEN /\ last' = "raise"
                /\ err' = r.err
                /\ LUT' = chosen.LUT
                /\ board' = r.state.board
                /\ score' = r.state.score
                /\ UNCHANGED <<fractions, history, log>>
           ELSE /\ history' = Append(history, [afterstate |-> r.afterstate,
                                               next_state |-> r.next_state])
                /\ board' = r.next_state.board
                /\ score' = r.next_state.score
                /\ IF agent = Experimental /\ ShouldLearn(learn, r.next_state)
                   THEN \E l \in learn_evaluation(agent, chosen.LUT, fractions,
                                                  r.afterstate, r.next_state) :
                        /\ LUT' = l.LUT
                        /\ fractions' = l.fractions
                        /\ log' = Append(log, [Learned(r.afterstate,
                                                       r.next_state, l)
                                               EXCEPT !.LUT = chosen.LUT])
                        /\ err' = l.err
                        /\ last' = IF l.err = "none" THEN "play_game"
                                   ELSE "raise"
                   ELSE /\ LUT' = chosen.LUT
                        /\ err' = "none"
                        /\ last' = "play_game"
                        /\ UNCHANGED <<fractions, log>>

\* The while loop of play_game ends: tdlearningagent.py goes on to its for
\* loop where self.learn holds, and returns otherwise; the experimental
\* module returns.
play_game_over ==
    /\ last = "play_game"
    /\ GameOver(board)
    /\ over' = TRUE
    /\ IF agent = Base /\ learn /\ history # <<>>
       THEN /\ last' = "learn"
            /\ left' = Len(history)
       ELSE /\ last' = "return"
            /\ left' = 0
    /\ UNCHANGED <<board, score, ret, legal, new_tile, err, old_board,
                   old_score, agentVars, episodeVars, searchVars>>

\* One iteration of the for loop of play_game in tdlearningagent.py, over
\* list(reversed(history)); left counts the transitions still to visit.
play_game_learn ==
    /\ last = "learn"
    /\ left > 0
    /\ left' = left - 1
    /\ UNCHANGED <<board, score, ret, legal, over, new_tile, old_board,
                   old_score, agent, old_LUT, result, learn, history,
                   searchVars>>
    /\ LET t == reversed(history)[Len(history) + 1 - left]
       IN  IF ShouldLearn(learn, t.next_state)
           THEN \E l \in learn_evaluation(agent, LUT, fractions,
                                          t.afterstate, t.next_state) :
                /\ LUT' = l.LUT
                /\ fractions' = l.fractions
                /\ log' = Append(log, Learned(t.afterstate, t.next_state, l))
                /\ err' = l.err
                /\ last' = IF l.err # "none" THEN "raise"
                           ELSE IF left = 1 THEN "return" ELSE "learn"
           ELSE /\ last' = IF left = 1 THEN "return" ELSE "learn"
                /\ UNCHANGED <<LUT, fractions, log, err>>

NextEpisode ==
    \/ play_game_loop
    \/ play_game_over
    \/ play_game_learn

-----------------------------------------------------------------------------
(* The games and lookup tables an episode is followed from *)

\* Games near their end, one and two moves away from a full board without
\* equal neighbours.
EpisodeBoards ==
    { << <<8, 16, 32, 64>>, <<128, 256, 512, 1024>>,
         <<8, 16, 32, 64>>, <<128, 256, 512, 0>> >>,
      << <<8, 16, 32, 64>>, <<128, 256, 512, 1024>>,
         <<8, 16, 32, 64>>, <<128, 256, 0, 0>> >> }

\* The afterstates of those games.
EpisodeAfterstates ==
    UNION {{MoveLeft(b).board, MoveRight(b).board, MoveUp(b).board,
            MoveDown(b).board} : b \in EpisodeBoards}

\* The features an n-tuple reads on the symmetries of those afterstates.
EpisodeFeatures(ntuple) ==
    {Feature(ntuple, symmetries(GameOf(b, 0))[k]) :
        b \in EpisodeAfterstates, k \in 1..8}

\* A table after learning: small whole weights of both signs.
EpisodeLUT(a) ==
    [ntuple \in DOMAIN FreshLUT(a) |->
        [f \in EpisodeFeatures(ntuple) |->
            (((f[1] + f[3]) \div 8 + Len(ntuple)) % 5) - 2]]

\* A table load_agent or load_model can read from a file: weights far
\* below zero.
EpisodeLowLUT(a) ==
    [ntuple \in DOMAIN FreshLUT(a) |->
        [f \in EpisodeFeatures(ntuple) |-> -1000000]]

\* play_game in the middle of an episode: history and log hold what is
\* recorded from here on, and old_LUT is the table play_game was called
\* with.
InitEpisode ==
    /\ agent \in TdAgents
    /\ learn \in BOOLEAN
    /\ LUT \in {FreshLUT(agent), EpisodeLUT(agent), EpisodeLowLUT(agent)}
    /\ old_LUT = LUT
    /\ fractions = <<>>
    /\ history = <<>>
    /\ log = <<>>
    /\ result = NoResult
    /\ NoSearch
    /\ board \in EpisodeBoards
    /\ score = BoardScore(board, 0)
    /\ last = "play_game"
    /\ ret = 0
    /\ legal = {}
    /\ over = FALSE
    /\ new_tile = 0
    /\ err = "none"
    /\ old_board = board
    /\ old_score = score
    /\ left = MaxSteps

SpecEpisode == InitEpisode /\ [][NextEpisode]_vars

-----------------------------------------------------------------------------
(* The episode loops to their end: play_game of the two TD modules and      *)
(* play_ai of src/ai_gameplay.py, with any legal move as the choice         *)

\* A board late in a game: three rows whose neighbours all differ, and the
\* row the last move has emptied.
EndgameBoard ==
    << <<128, 256, 512, 1024>>, <<2048, 4096, 128, 256>>,
       <<512, 1024, 2048, 4096>>, <<0, 0, 0, 0>> >>

\* The boards the loop can be entered with after the spawn on EndgameBoard.
EndgameBoards == SpawnBoards(EndgameBoard)

\* The modules whose loop is followed.
EpisodeModules == {Base, "ai_gameplay"}

\* One iteration of `while not state.is_game_over()` of play_game, or of
\* `while not game.is_game_over()` of play_ai: the action of the policy,
\* which can be any legal move, applied and followed by the spawn, and then
\* the test of the loop on the new board. calls counts the calls of the
\* policy, over and legal hold what the test has found.
episode_step ==
    /\ last = "episode"
    /\ ~over
    /\ calls' = calls + 1
    /\ UNCHANGED <<ret, old_board, old_score, left, agentVars, episodeVars,
                   cache, stack, returns, hit, set_order,
                   parity>>
    /\ \E action \in legal :
        IF agent \in TdAgents
        THEN \E r \in make_move(agent, State, action) :
              /\ new_tile' = r.new_tile
              /\ err' = r.err
              /\ IF r.err # "none"
                 THEN /\ last' = "raise"
                      /\ board' = r.state.board
                      /\ score' = r.state.score
                      /\ UNCHANGED <<legal, over>>
                 ELSE /\ last' = "episode"
                      /\ board' = r.next_state.board
                      /\ score' = r.next_state.score
                      /\ legal' = LegalMoves(r.next_state.board)
                      /\ over' = GameOver(r.next_state.board)
        ELSE \E m \in {IF action = "LEFT" THEN MoveLeft(board)
                       ELSE IF action = "RIGHT" THEN MoveRight(board)
                       ELSE IF action = "UP" THEN MoveUp(board)
                       ELSE MoveDown(board)} :
             \E t \in NewTileValues :
              /\ new_tile' = t
              /\ score' = AddScore(score, m.new_score)
              /\ IF get_empty_tiles(m.board) # {}
                 THEN \E p \in get_empty_tiles(m.board) :
                      \E spawned \in {PlaceTile(m.board, p, t)} :
                       /\ board' = spawned
                       /\ legal' = LegalMoves(spawned)
                       /\ over' = GameOver(spawned)
                       /\ err' = "none"
                       /\ last' = "episode"
                 ELSE /\ board' = m.board
                      /\ err' = BoardFullError
                      /\ last' = "raise"
                      /\ UNCHANGED <<legal, over>>

\* is_game_over() held: the while loop is left and the function returns.
episode_over ==
    /\ last = "episode"
    /\ over
    /\ last' = "return"
    /\ UNCHANGED <<board, score, ret, legal, over, new_tile, err, old_board,
                   old_score, left, agentVars, episodeVars, searchVars>>

NextTermination == episode_step \/ episode_over

\* The loop entered late in a game, with the table never learned from.
InitTermination ==
    /\ agent \in EpisodeModules
    /\ LUT = <<>>
    /\ old_LUT = <<>>
    /\ result = NoResult
    /\ NoEpisode
    /\ NoSearch
    /\ board \in EndgameBoards
    /\ score = BoardScore(board, 0)
    /\ last = "episode"
    /\ ret = 0
    /\ legal = LegalMoves(board)
    /\ over = GameOver(board)
    /\ new_tile = 0
    /\ err = "none"
    /\ old_board = EmptyBoard
    /\ old_score = 0
    /\ left = 0

\* The loop is seen to go round: the policy is called once more.
episode_iterates ==
    /\ last = "episode"
    /\ ~over
    /\ calls' = calls + 1

\* The loop is seen to end.
episode_returns ==
    /\ last = "episode"
    /\ over
    /\ last' = "return"

\* The interpreter runs the loop as long as an iteration can be made: a
\* loop that stays at its test either goes round or ends.
SpecTermination ==
    /\ InitTermination
    /\ [][NextTermination]_vars
    /\ WF_calls(episode_iterates)
    /\ WF_last(episode_returns)

-----------------------------------------------------------------------------
(* The search of src/expectimax_agent.py, one step of a method at a time    *)

\* ExpectimaxAgent(depth=2) of play_ai, and the default of __init__.
SearchDepth == 2

\* How many get_best_move calls one behaviour makes on the agent.
MaxCalls == 2

\* The integer that stands for the float 1.0: every value of the search is
\* a whole number of 1/72000, the common denominator of 0.9 / n, 0.1 / n
\* and 0.12 / n for n in 1..4 taken twice.
Unit == 72000

\* The cells of the board in the order of two nested range() loops.
Cells ==
    [k \in 1..(Size * Size) |-> <<((k - 1) \div Size) + 1, ((k - 1) % Size) + 1>>]

\* Game.get_empty_tiles as the list it is.
empty_tiles_list(b) == SelectSeq(Cells, LAMBDA p : b[p[1]][p[2]] = 0)

\* list(state.get_legal_moves()): the members of the set in the order of
\* the process.
moves_list(order, b) == SelectSeq(order, LAMBDA m : m \in LegalMoves(b))

\* board[0][0] == max_tile or board[0][3] == max_tile or ...
CornerHolds(b, v) ==
    b[1][1] = v \/ b[1][Size] = v \/ b[Size][1] = v \/ b[Size][Size] = v

\* ExpectimaxAgent.quick_eval
quick_eval(b) ==
    Len(empty_tiles_list(b)) * 100
    + (IF CornerHolds(b, MaxTile(b)) THEN 1000 ELSE 0)
    + MaxTile(b)

\* How Python orders the four move names as strings.
MoveRank(m) ==
    CASE m = "DOWN" -> 1 [] m = "LEFT" -> 2 [] m = "RIGHT" -> 3 [] m = "UP" -> 4

\* (score, move) tuples compared as Python compares tuples.
TupleGreater(p, q) ==
    p[1] > q[1] \/ (p[1] = q[1] /\ MoveRank(p[2]) > MoveRank(q[2]))

RECURSIVE SortedReverse(_)
\* move_scores.sort(reverse=True), of the (score, move) tuples in the set.
SortedReverse(scored) ==
    IF scored = {} THEN <<>>
    ELSE LET top == CHOOSE p \in scored :
                        \A q \in scored \ {p} : TupleGreater(p, q)
         IN  <<top>> \o SortedReverse(scored \ {top})

\* The moves get_best_move tries, in its order: the legal moves by the
\* quick_eval of their successors, best first.
move_scores(game) ==
    LET sorted == SortedReverse(
            {<<quick_eval(generateSuccessor(game, move).new_game.board), move>> :
                move \in LegalMoves(game.board)})
    IN  [k \in 1..Len(sorted) |-> sorted[k][2]]

\* The game as get_best_move's first for loop leaves it: generateSuccessor
\* has been called on it with legalMoves[k], legalMoves[k + 1], ...
RECURSIVE game_scored(_, _, _)
game_scored(game, legalMoves, k) ==
    IF k > Len(legalMoves) THEN game
    ELSE game_scored(generateSuccessor(game, legalMoves[k]).game,
                     legalMoves, k + 1)

\* (x in [0, 3] and y in [0, 3]) or (x in [0, 3] or y in [0, 3])
OnEdge(p) ==
    \/ (p[1] \in {1, Size} /\ p[2] \in {1, Size})
    \/ (p[1] \in {1, Size} \/ p[2] \in {1, Size})

\* s[:4]
FirstFour(s) == SubSeq(s, 1, IF Len(s) < 4 THEN Len(s) ELSE 4)

\* The list `empty` of chance_value when its for loop begins.
chance_cells(b) ==
    LET empty == empty_tiles_list(b)
        priority_empty == SelectSeq(empty, OnEdge)
    IN  IF Len(empty) > 4
        THEN IF Len(priority_empty) > 4
             THEN FirstFour(priority_empty)
             ELSE FirstFour(priority_empty \o empty)
        ELSE empty

\* max_pos of evaluate: the first cell, in the order of the loops, that
\* holds the greatest tile, and (0, 0) on a board without tiles.
max_pos(b) ==
    IF MaxTile(b) = 0 THEN <<1, 1>>
    ELSE Cells[CHOOSE k \in 1..(Size * Size) :
                /\ b[Cells[k][1]][Cells[k][2]] = MaxTile(b)
                /\ \A j \in 1..(k - 1) :
                    b[Cells[j][1]][Cells[j][2]] # MaxTile(b)]

\* corners = [(0, 0), (0, 3), (3, 0), (3, 3)]
Corners == {<<1, 1>>, <<1, Size>>, <<Size, 1>>, <<Size, Size>>}

RECURSIVE merge_bonus(_, _)
\* merge_bonus of evaluate, from cell k of the loops on.
merge_bonus(b, k) ==
    IF k > Size * Size THEN 0
    ELSE LET i == Cells[k][1]
             j == Cells[k][2]
         IN  (IF b[i][j] > 0 /\ j < Size /\ b[i][j] = b[i][j + 1]
              THEN b[i][j] ELSE 0)
             + (IF b[i][j] > 0 /\ i < Size /\ b[i][j] = b[i + 1][j]
                THEN b[i][j] ELSE 0)
             + merge_bonus(b, k + 1)

\* ExpectimaxAgent.evaluate: mono_score is computed and never added.
evaluate(b) ==
    Len(empty_tiles_list(b)) * 500
    + MaxTile(b) * 2
    + (IF max_pos(b) \in Corners THEN MaxTile(b) * 3 ELSE 0 - MaxTile(b) * 2)
    + merge_bonus(b, 1)

\* 0.9 * prob_each_tile * val for the n cells of a chance node; val is a
\* whole number of 10 * n.
TimesNineTenths(val, n) == (val \div (10 * n)) * 9

\* 0.1 * prob_each_tile * val
TimesOneTenth(val, n) == val \div (10 * n)

\* 0.1 * prob_each_tile * val * 1.2; val is a whole number of 100 * n.
TimesOneTenthAndMore(val, n) == (val \div (100 * n)) * 12

\* A method called with its arguments, at its first line. acc is the value
\* its loop keeps, <<>> for -float("inf"); list is the list its loop reads.
Frame(fn, b, depth, agentIndex) ==
    [fn |-> fn, board |-> b, depth |-> depth, agentIndex |-> agentIndex,
     pc |-> "start", list |-> <<>>, i |-> 1, acc |-> <<>>, best |-> "None",
     val2 |-> 0]

\* The method that is running, and the methods that wait for it.
Top == stack[Len(stack)]
Callers == SubSeq(stack, 1, Len(stack) - 1)

\* What is kept of a return: the call and the value (the move for
\* get_best_move).
Returned(f, value, move) ==
    [fn |-> f.fn, board |-> f.board, depth |-> f.depth,
     agentIndex |-> f.agentIndex, list |-> f.list, value |-> value,
     move |-> move]

\* Fault: a cache key without the node type.
cache_key_without_agentIndex(f) ==
    [board |-> f.board, depth |-> f.depth, agentIndex |-> 0]

\* cache_key = (board_tuple, depth, agentIndex)
cache_key(f) == [board |-> f.board, depth |-> f.depth, agentIndex |-> f.agentIndex]

\* Fault: get_best_move without self.cache.clear().
cache_kept(c) == c

\* self.cache.clear()
cache_clear(c) == <<>>

\* self.cache[cache_key] = result; each entry is kept with the number of
\* the get_best_move call that stored it.
cache_store(c, key, value, call) ==
    [k \in DOMAIN c \cup {key} |->
        IF k = key THEN [value |-> value, call |-> call] ELSE c[k]]

\* What is left alone by every step of the search, and the count of the
\* steps.
SearchStepOn ==
    /\ parity' = 1 - parity
    /\ UNCHANGED <<last, ret, legal, over, new_tile, err, old_board, old_score,
                   left, agentVars, episodeVars, calls, set_order>>

\* A step that does not call generateSuccessor on the caller's game.
SearchStep ==
    /\ SearchStepOn
    /\ UNCHANGED <<board, score>>

\* The top method returns value to its caller.
Return(value, move) ==
    /\ stack' = Callers
    /\ returns' = <<Returned(Top, value, move)>>

\* The top method goes on as frame f and calls another method.
Pushes(f, callee) ==
    /\ stack' = Callers \o <<f, callee>>
    /\ UNCHANGED returns

\* The top method goes on as frame f.
Goes(f) ==
    /\ stack' = Callers \o <<f>>
    /\ UNCHANGED returns

\* The games get_best_move is called with: one whose DOWN leaves six empty
\* cells of which two are on an edge, one with two tiles, a crowded one, one
\* that is over, and one that is over after LEFT and the tile that follows.
SearchBoards ==
    { << <<2, 0, 0, 4>>, <<4, 2, 0, 2>>, <<8, 0, 4, 8>>, <<4, 0, 0, 2>> >>,
      << <<0, 0, 0, 0>>, <<0, 2, 0, 0>>, <<0, 0, 4, 0>>, <<0, 0, 0, 0>> >>,
      << <<2, 4, 8, 16>>, <<4, 8, 16, 2>>, <<2, 4, 2, 0>>, <<4, 2, 0, 0>> >>,
      << <<2, 4, 2, 4>>, <<4, 2, 4, 2>>, <<2, 4, 2, 4>>, <<4, 2, 4, 2>> >>,
      << <<0, 2, 4, 8>>, <<4, 8, 16, 32>>, <<2, 4, 8, 16>>, <<4, 8, 16, 32>> >> }

\* get_best_move(game) up to its second for loop: the cache is cleared, and
\* without a legal move None is returned.
get_best_move_call ==
    /\ stack = <<>>
    /\ calls < MaxCalls
    /\ calls' = calls + 1
    /\ last' = "get_best_move"
    /\ cache' = cache_clear(cache)
    /\ hit' = <<>>
    /\ parity' = 0
    /\ UNCHANGED <<ret, legal, over, new_tile, err, left, agentVars,
                   episodeVars, set_order>>
    /\ \E b \in SearchBoards :
        LET game == GameOf(b, BoardScore(b, 0))
            after == game_scored(game, moves_list(set_order, b), 1)
        IN  /\ old_board' = game.board
            /\ old_score' = game.score
            /\ board' = after.board
            /\ score' = after.score
            /\ IF LegalMoves(b) = {}
               THEN /\ stack' = <<>>
                    /\ returns' = <<Returned(Frame("get_best_move", b, 0, 0),
                                             0, "None")>>
               ELSE /\ stack' = <<[Frame("get_best_move", b, 0, 0)
                                   EXCEPT !.pc = "for",
                                          !.list = move_scores(game)]>>
                    /\ returns' = <<>>

\* for score, move in move_scores: the successor of the next move is
\* searched, and after the last move bestMove is returned.
get_best_move_for ==
    /\ stack # <<>>
    /\ Top.fn = "get_best_move"
    /\ Top.pc = "for"
    /\ SearchStepOn
    /\ UNCHANGED cache
    /\ hit' = <<>>
    /\ IF Top.i > Len(Top.list)
       THEN /\ Return(0, Top.best)
            /\ UNCHANGED <<board, score>>
       ELSE \E g \in {generateSuccessor(State, Top.list[Top.i])} :
                /\ board' = g.game.board
                /\ score' = g.game.score
                /\ Pushes([Top EXCEPT !.pc = "value"],
                          Frame("expectimax", g.new_game.board, 0, 1))

\* if value > bestValue: bestValue = value; bestMove = move
get_best_move_value ==
    /\ stack # <<>>
    /\ Top.fn = "get_best_move"
    /\ Top.pc = "value"
    /\ SearchStep
    /\ UNCHANGED cache
    /\ hit' = <<>>
    /\ LET value == returns[1].value
       IN  Goes(IF Top.acc = <<>> \/ value > Top.acc[1]
                THEN [Top EXCEPT !.pc = "for", !.i = @ + 1,
                                 !.acc = <<value>>,
                                 !.best = Top.list[Top.i]]
                ELSE [Top EXCEPT !.pc = "for", !.i = @ + 1])

\* expectimax(state, depth, agentIndex) up to the call of max_value or
\* chance_value: the evaluation of a leaf, or the value the cache holds.
expectimax_call ==
    /\ stack # <<>>
    /\ Top.fn = "expectimax"
    /\ Top.pc = "start"
    /\ SearchStep
    /\ UNCHANGED cache
    /\ IF GameOver(Top.board) \/ Top.depth = SearchDepth
       THEN /\ Return(evaluate(Top.board) * Unit, "None")
            /\ hit' = <<>>
       ELSE IF cache_key(Top) \in DOMAIN cache
       THEN /\ Return(cache[cache_key(Top)].value, "None")
            /\ hit' = <<[key |-> cache_key(Top),
                         call |-> cache[cache_key(Top)].call]>>
       ELSE /\ Pushes([Top EXCEPT !.pc = "result"],
                      Frame(IF Top.agentIndex = 0 THEN "max_value"
                            ELSE "chance_value",
                            Top.board, Top.depth, Top.agentIndex))
            /\ hit' = <<>>

\* self.cache[cache_key] = result; return result
expectimax_result ==
    /\ stack # <<>>
    /\ Top.fn = "expectimax"
    /\ Top.pc = "result"
    /\ SearchStep
    /\ hit' = <<>>
    /\ cache' = cache_store(cache, cache_key(Top), returns[1].value, calls)
    /\ Return(returns[1].value, "None")

\* max_value(state, depth) up to its for loop.
max_value_call ==
    /\ stack # <<>>
    /\ Top.fn = "max_value"
    /\ Top.pc = "start"
    /\ SearchStep
    /\ UNCHANGED cache
    /\ hit' = <<>>
    /\ LET moves == moves_list(set_order, Top.board)
       IN  IF moves = <<>>
           THEN Return(evaluate(Top.board) * Unit, "None")
           ELSE Goes([Top EXCEPT !.pc = "for", !.list = moves])

\* Fault: max_value searching its successors one level deeper.
max_value_for_deeper ==
    /\ stack # <<>>
    /\ Top.fn = "max_value"
    /\ Top.pc = "for"
    /\ SearchStep
    /\ UNCHANGED cache
    /\ hit' = <<>>
    /\ IF Top.i > Len(Top.list)
       THEN Return(Top.acc[1], "None")
       ELSE Pushes([Top EXCEPT !.pc = "value"],
                   Frame("expectimax",
                         generateSuccessor(GameOf(Top.board, 0),
                                           Top.list[Top.i]).new_game.board,
                         Top.depth + 1, 1))

\* for move in moves: the successor is searched as a chance node, and after
\* the last move maxValue is returned.
max_value_for ==
    /\ stack # <<>>
    /\ Top.fn = "max_value"
    /\ Top.pc = "for"
    /\ SearchStep
    /\ UNCHANGED cache
    /\ hit' = <<>>
    /\ IF Top.i > Len(Top.list)
       THEN Return(Top.acc[1], "None")
       ELSE Pushes([Top EXCEPT !.pc = "value"],
                   Frame("expectimax",
                         generateSuccessor(GameOf(Top.board, 0),
                                           Top.list[Top.i]).new_game.board,
                         Top.depth, 1))

\* maxValue = max(maxValue, value)
max_value_value ==
    /\ stack # <<>>
    /\ Top.fn = "max_value"
    /\ Top.pc = "value"
    /\ SearchStep
    /\ UNCHANGED cache
    /\ hit' = <<>>
    /\ LET value == returns[1].value
       IN  Goes([Top EXCEPT !.pc = "for", !.i = @ + 1,
                            !.acc = IF Top.acc = <<>> \/ value > Top.acc[1]
                                    THEN <<value>> ELSE Top.acc])

\* chance_value(state, depth) up to its for loop: the list of the cells.
chance_value_call ==
    /\ stack # <<>>
    /\ Top.fn = "chance_value"
    /\ Top.pc = "start"
    /\ SearchStep
    /\ UNCHANGED cache
    /\ hit' = <<>>
    /\ IF empty_tiles_list(Top.board) = <<>>
       THEN Return(evaluate(Top.board) * Unit, "None")
       ELSE Goes([Top EXCEPT !.pc = "for", !.acc = <<0>>,
                             !.list = chance_cells(Top.board)])

\* for (x, y) in empty: the board with a 2 in the cell is searched, and
\* after the last cell expected_value is returned.
chance_value_for ==
    /\ stack # <<>>
    /\ Top.fn = "chance_value"
    /\ Top.pc = "for"
    /\ SearchStep
    /\ UNCHANGED cache
    /\ hit' = <<>>
    /\ IF Top.i > Len(Top.list)
       THEN Return(Top.acc[1], "None")
       ELSE Pushes([Top EXCEPT !.pc = "val2"],
                   Frame("expectimax",
                         PlaceTile(Top.board, Top.list[Top.i], 2),
                         Top.depth + 1, 0))

\* expected_value += 0.9 * prob_each_tile * val2, and then the board with a
\* 4 is searched `if depth < self.depth - 1`, or val2 * 1.2 stands for it.
chance_value_val2 ==
    /\ stack # <<>>
    /\ Top.fn = "chance_value"
    /\ Top.pc = "val2"
    /\ SearchStep
    /\ UNCHANGED cache
    /\ hit' = <<>>
    /\ LET val2 == returns[1].value
           n == Len(Top.list)
           added == Top.acc[1] + TimesNineTenths(val2, n)
       IN  IF Top.depth < SearchDepth - 1
           THEN Pushes([Top EXCEPT !.pc = "val4", !.val2 = val2,
                                   !.acc = <<added>>],
                       Frame("expectimax",
                             PlaceTile(Top.board, Top.list[Top.i], 4),
                             Top.depth + 1, 0))
           ELSE Goes([Top EXCEPT !.pc = "for", !.i = @ + 1, !.val2 = val2,
                                 !.acc = <<added
                                           + TimesOneTenthAndMore(val2, n)>>])

\* expected_value += 0.1 * prob_each_tile * val4
chance_value_val4 ==
    /\ stack # <<>>
    /\ Top.fn = "chance_value"
    /\ Top.pc = "val4"
    /\ SearchStep
    /\ UNCHANGED cache
    /\ hit' = <<>>
    /\ Goes([Top EXCEPT !.pc = "for", !.i = @ + 1,
                        !.acc = <<Top.acc[1]
                                  + TimesOneTenth(returns[1].value,
                                                  Len(Top.list))>>])

NextSearch ==
    \/ get_best_move_call
    \/ get_best_move_for
    \/ get_best_move_value
    \/ expectimax_call
    \/ expectimax_result
    \/ max_value_call
    \/ max_value_for
    \/ max_value_value
    \/ chance_value_call
    \/ chance_value_for
    \/ chance_value_val2
    \/ chance_value_val4

\* The orders list() gives a set of moves in the processes followed.
SetOrders ==
    { <<"LEFT", "RIGHT", "UP", "DOWN">>, <<"DOWN", "UP", "RIGHT", "LEFT">> }

\* ExpectimaxAgent(depth=2): an empty cache, and no call made.
InitSearch ==
    /\ agent = Expectimax
    /\ LUT = <<>>
    /\ old_LUT = <<>>
    /\ result = NoResult
    /\ NoEpisode
    /\ cache = <<>>
    /\ stack = <<>>
    /\ returns = <<>>
    /\ calls = 0
    /\ hit = <<>>
    /\ set_order \in SetOrders
    /\ parity = 0
    /\ board = EmptyBoard
    /\ score = 0
    /\ last = "__init__"
    /\ ret = 0
    /\ legal = {}
    /\ over = FALSE
    /\ new_tile = 0
    /\ err = "none"
    /\ old_board = EmptyBoard
    /\ old_score = 0
    /\ left = 0

SpecSearch == InitSearch /\ [][NextSearch]_vars

\* A step of a search that is running. The methods run in one thread, each
\* statement as control reaches it, so a search that can step does.
search_runs ==
    /\ stack # <<>>
    /\ parity' = 1 - parity

SpecSearchTermination ==
    InitSearch /\ [][NextSearch]_vars /\ WF_parity(search_runs)

-----------------------------------------------------------------------------
(* Vocabulary of the properties *)

MoveNames == {"move_left", "move_right", "move_up", "move_down"}

\* The direction get_legal_moves names for each move method.
DirOf(name) ==
    CASE name = "move_left" -> "LEFT"
      [] name = "move_right" -> "RIGHT"
      [] name = "move_up" -> "UP"
      [] name = "move_down" -> "DOWN"

\* What applying the move of direction d to board b yields.
Apply(d, b) ==
    CASE d = "LEFT" -> MoveLeft(b)
      [] d = "RIGHT" -> MoveRight(b)
      [] d = "UP" -> MoveUp(b)
      [] d = "DOWN" -> MoveDown(b)

Reverse(line) == [i \in Idx |-> line[Size + 1 - i]]

\* Line k of board b read from the edge the tiles move toward.
LineToward(d, b, k) ==
    CASE d = "LEFT" -> b[k]
      [] d = "RIGHT" -> Reverse(b[k])
      [] d = "UP" -> Column(b, k)
      [] d = "DOWN" -> Reverse(Column(b, k))

\* The tiles of a line in order, zeros dropped.
Tiles(line) == SelectSeq(line, LAMBDA n : n > 0)

\* M marks the tiles that merge with their successor, for tiles V scanned
\* from the leading edge: merged neighbours are equal, no tile is in two
\* merges, and an equal pair stays apart only when its first tile has
\* already merged with the tile before it.
IsMergeMarking(V, M) ==
    /\ \A i \in M : V[i] = V[i + 1] /\ (i + 1) \notin M
    /\ \A i \in 1..(Len(V) - 1) :
            (V[i] = V[i + 1] /\ i \notin M) => (i - 1) \in M

\* The tiles that open a group (a merging pair or a single tile).
GroupStarts(V, M) == {i \in 1..Len(V) : (i - 1) \notin M}

\* out is line in collapsed toward its leading edge, by marking M.
CollapsesBy(in, out, M) ==
    LET V == Tiles(in)
        S == GroupStarts(V, M)
        rank(i) == Cardinality({j \in S : j <= i})
    IN  /\ IsMergeMarking(V, M)
        /\ \A i \in S : out[rank(i)] = (IF i \in M THEN 2 * V[i] ELSE V[i])
        /\ \A k \in Idx : k > Cardinality(S) => out[k] = 0

Markings(in) == SUBSET (1..(Len(Tiles(in)) - 1))

IsCollapse(in, out) == \E M \in Markings(in) : CollapsesBy(in, out, M)

RECURSIVE SumSet(_, _)
SumSet(f, S) ==
    IF S = {} THEN 0
    ELSE LET i == CHOOSE j \in S : TRUE IN f[i] + SumSet(f, S \ {i})

\* The points of collapsing a line: the values of the tiles its merges make.
MergeGain(in) ==
    LET V == Tiles(in)
        M == CHOOSE N \in Markings(in) : IsMergeMarking(V, N)
    IN  SumSet([i \in M |-> 2 * V[i]], M)

\* The sum of all tile values of a board.
Total(b) == SumSet([k \in Idx |-> SumSet(b[k], Idx)], Idx)

RECURSIVE IsPowerOfTwo(_)
IsPowerOfTwo(n) == n >= 2 /\ (n = 2 \/ (n % 2 = 0 /\ IsPowerOfTwo(n \div 2)))

\* The cells where two boards differ.
Diff(a, b) == {p \in Idx \X Idx : a[p[1]][p[2]] # b[p[1]][p[2]]}

\* No cell equals the cell right of it or the cell below it.
NoEqualNeighbours(b) ==
    /\ \A x \in Idx : \A y \in 1..(Size - 1) : b[x][y] # b[x][y + 1]
    /\ \A x \in 1..(Size - 1) : \A y \in Idx : b[x][y] # b[x + 1][y]

-----------------------------------------------------------------------------
(* Properties *)

\* C1: a move collapses every line toward the move direction: zeros are
\* dropped, the tiles are scanned from the leading edge, each pair of equal
\* neighbours merges into one tile of double value, no tile takes part in
\* two merges, and the result is compact. In particular a row [2,2,2,2]
\* moved left becomes [4,4,0,0] and a row [2,2,0,0] becomes [4,0,0,0].
C1_MoveCollapsesLines ==
    last \in MoveNames =>
        /\ \A k \in Idx :
              IsCollapse(LineToward(DirOf(last), old_board, k),
                         LineToward(DirOf(last), board, k))
        /\ last = "move_left" =>
              \A k \in Idx :
                /\ old_board[k] = <<2, 2, 2, 2>> => board[k] = <<4, 4, 0, 0>>
                /\ old_board[k] = <<2, 2, 0, 0>> => board[k] = <<4, 0, 0, 0>>

C1_Witness ==
    /\ last = "move_left"
    /\ old_board[1] = <<2, 2, 2, 2>> /\ board[1] = <<4, 4, 0, 0>>
    /\ old_board[2] = <<2, 2, 0, 0>> /\ board[2] = <<4, 0, 0, 0>>
    /\ old_board[3] = <<2, 2, 2, 0>> /\ board[3] = <<4, 2, 0, 0>>

\* C2: a move returns the sum of the values of the tiles its merges produce
\* (8 for a lone row [2,2,2,2], 4 for a lone row [2,2,0,0]) and the score
\* grows by exactly the returned value.
C2_MoveReturnsMergeGain ==
    last \in MoveNames =>
        /\ ret = SumSet([k \in Idx |->
                            MergeGain(LineToward(DirOf(last), old_board, k))], Idx)
        /\ score = old_score + ret
        /\ (Total(old_board) = 8 /\ \E k \in Idx : old_board[k] = <<2, 2, 2, 2>>)
              => (last \in {"move_left", "move_right"} => ret = 8)
        /\ (Total(old_board) = 4 /\ \E k \in Idx : old_board[k] = <<2, 2, 0, 0>>)
              => (last \in {"move_left", "move_right"} => ret = 4)

C2_Witness ==
    /\ last = "move_right"
    /\ old_board[2] = <<2, 2, 2, 2>>
    /\ Total(old_board) = 8
    /\ ret = 8
    /\ score = 8

\* C3: get_legal_moves offers a direction exactly when applying that move
\* would change the board, and the call itself changes neither board nor
\* score.
C3_LegalIffMoveChangesBoard ==
    last = "get_legal_moves" =>
        /\ \A d \in {"LEFT", "RIGHT", "UP", "DOWN"} :
              d \in legal <=> Apply(d, old_board).board # old_board
        /\ board = old_board
        /\ score = old_score

C3_Witness ==
    /\ last = "get_legal_moves"
    /\ legal = {"RIGHT", "DOWN"}
    /\ Apply("RIGHT", board).board # board
    /\ Apply("LEFT", board).board = board

\* C4: a move in a direction get_legal_moves does not offer leaves board
\* and score unchanged and returns 0.
C4_IllegalMoveIsNoOp ==
    (last \in MoveNames /\ DirOf(last) \notin LegalMoves(old_board)) =>
        /\ board = old_board
        /\ score = old_score
        /\ ret = 0

C4_Witness ==
    /\ last = "move_up"
    /\ "UP" \notin LegalMoves(old_board)
    /\ LegalMoves(old_board) # {}
    /\ board = old_board
    /\ ret = 0

\* C5: is_game_over is true exactly when get_legal_moves is empty, which
\* is exactly when the board has no empty cell and no two horizontally or
\* vertically adjacent cells are equal.
C5_GameOverIffFullAndNoEqualNeighbours ==
    last = "is_game_over" =>
        /\ over <=> (LegalMoves(board) = {})
        /\ over <=> (get_empty_tiles(board) = {} /\ NoEqualNeighbours(board))

C5_Witness ==
    /\ last = "is_game_over"
    /\ over
    /\ board[1] = <<2, 4, 2, 4>>
    /\ board[2] = <<4, 2, 4, 2>>

\* C6: in every state reachable from a new game by moves and spawns, every
\* non-zero cell is a power of 2 that is at least 2.
C6_TilesArePowersOfTwo ==
    \A p \in Idx \X Idx :
        board[p[1]][p[2]] = 0 \/ IsPowerOfTwo(board[p[1]][p[2]])

C6_Witness ==
    /\ last \in MoveNames
    /\ ret = 8
    /\ \E p \in Idx \X Idx : board[p[1]][p[2]] = 8

\* C7 as stated: after a move followed by a spawn the total of all tile
\* values has grown by the merge gains of the move plus the spawned value.
C7_TotalGrowsByGainPlusSpawn ==
    (last \in MoveNames /\ new_tile # 0 /\ err = "none") =>
        Total(board) = Total(old_board) + ret + new_tile

\* C7 amended: after a move followed by a spawn the total of all tile
\* values has grown by exactly the value of the spawned tile; the merges of
\* the move leave the total as it was.
C7_TotalGrowsBySpawnOnly ==
    (last \in MoveNames /\ new_tile # 0 /\ err = "none") =>
        Total(board) = Total(old_board) + new_tile

C7_Witness ==
    /\ last \in MoveNames
    /\ err = "none"
    /\ ret = 8
    /\ new_tile = 2
    /\ Total(old_board) = 8
    /\ Total(board) = 10

\* C8: the score is a non-negative integer and no move and no spawn makes
\* it smaller.
C8_ScoreNeverDecreases ==
    /\ score \in Nat
    /\ score >= old_score

C8_Witness ==
    /\ last \in MoveNames
    /\ ret > 0
    /\ score > old_score

\* C9: on a board with an empty cell spawn_tile changes exactly one cell,
\* from empty to 2 or 4, and leaves every other cell and the score alone.
C9_SpawnFillsOneEmptyCell ==
    (last = "spawn_tile" /\ \E p \in Idx \X Idx : old_board[p[1]][p[2]] = 0) =>
        /\ err = "none"
        /\ Cardinality(Diff(old_board, board)) = 1
        /\ \A p \in Diff(old_board, board) :
              /\ old_board[p[1]][p[2]] = 0
              /\ board[p[1]][p[2]] \in {2, 4}
        /\ score = old_score

C9_Witness ==
    /\ last = "spawn_tile"
    /\ Cardinality(Diff(old_board, board)) = 1
    /\ old_board[3][2] = 0
    /\ board[3][2] = 4
    /\ old_board[2][3] # 0

\* C10: spawn_tile on a board without an empty cell fails with the error
\* of a full board (the ValueError "Cannot add new tile: board is full.")
\* and leaves board and score unchanged.
C10_SpawnOnFullBoardFails ==
    (last = "spawn_tile" /\ \A p \in Idx \X Idx : old_board[p[1]][p[2]] # 0) =>
        /\ err = BoardFullError
        /\ board = old_board
        /\ score = old_score

C10_Witness ==
    /\ last = "spawn_tile"
    /\ \A p \in Idx \X Idx : old_board[p[1]][p[2]] # 0
    /\ err = BoardFullError

\* The rows of a board, each reversed.
ReverseRows(b) == [x \in Idx |-> Reverse(b[x])]

\* The transpose of a board.
Transpose(b) == [x \in Idx |-> Column(b, x)]

\* C11: in the play loop spawn_tile is never called on a full board: a
\* legal move leaves at least one empty cell, so the error of a full board
\* is not raised during an episode.
C11_PlayNeverSpawnsOnFullBoard ==
    /\ err # BoardFullError
    /\ last \in MoveNames => get_empty_tiles(Apply(DirOf(last), old_board).board) # {}

C11_Witness ==
    /\ last \in MoveNames
    /\ get_empty_tiles(old_board) = {}
    /\ new_tile # 0
    /\ err = "none"
    /\ get_empty_tiles(board) # {}

\* C12: a newly created game has score 0 and a board with exactly two
\* non-zero cells, each 2 or 4, and all other cells 0.
C12_NewGameHasTwoTiles ==
    last = "__init__" =>
        /\ score = 0
        /\ Cardinality({p \in Idx \X Idx : board[p[1]][p[2]] # 0}) = 2
        /\ \A p \in Idx \X Idx : board[p[1]][p[2]] \in {0, 2, 4}

C12_Witness ==
    /\ last = "__init__"
    /\ score = 0
    /\ board[1][1] = 2
    /\ board[4][3] = 4

\* C13: the four moves are one merge primitive under board transformation:
\* move_right is move_left between two row reversals, move_up is move_left
\* between two transpositions, move_down is move_right between two
\* transpositions, each with the same returned score delta.
C13_MovesAreOnePrimitive ==
    /\ last = "move_right" =>
          LET m == MoveLeft(ReverseRows(old_board))
          IN  board = ReverseRows(m.board) /\ ret = m.new_score
    /\ last = "move_up" =>
          LET m == MoveLeft(Transpose(old_board))
          IN  board = Transpose(m.board) /\ ret = m.new_score
    /\ last = "move_down" =>
          LET m == MoveRight(Transpose(old_board))
          IN  board = Transpose(m.board) /\ ret = m.new_score

C13_Witness ==
    /\ last = "move_down"
    /\ Column(old_board, 1) = <<2, 2, 2, 0>>
    /\ Column(board, 1) = <<0, 0, 2, 4>>
    /\ ret > 4

\* C14 as stated: for any state and any legal action, the board returned by
\* compute_afterstate never has fewer non-zero tiles than the input state.
C14_AfterstateKeepsTileCount ==
    (/\ last = "compute_afterstate"
     /\ err = "none"
     /\ result.arg \in LegalMoves(old_board))
    => TileCount(result.afterstate.board) >= TileCount(old_board)

\* C14 amended: for any state and any legal action, the board returned by
\* compute_afterstate never has more non-zero tiles than the input state,
\* and it has fewer exactly when the move merged tiles (the reward is
\* positive).
C14_AfterstateNeverGainsTiles ==
    (/\ last = "compute_afterstate"
     /\ err = "none"
     /\ result.arg \in LegalMoves(old_board))
    => /\ TileCount(result.afterstate.board) <= TileCount(old_board)
       /\ TileCount(result.afterstate.board) < TileCount(old_board)
            <=> result.reward > 0

C14_Witness ==
    /\ last = "compute_afterstate"
    /\ err = "none"
    /\ result.arg \in LegalMoves(old_board)
    /\ result.reward > 0
    /\ TileCount(result.afterstate.board) < TileCount(old_board)

\* C15: for any state and any legal action, make_move returns the
\* afterstate (the move applied, no tile spawned) and a next state that
\* equals the afterstate except for one cell, empty in the afterstate and
\* holding a new 2 or 4 in the next state; the afterstate returned is the
\* one the move made, unchanged by the spawn.
C15_MakeMoveSpawnsOneTile ==
    (last = "make_move" /\ result.arg \in LegalMoves(old_board))
    => LET moved == Apply(result.arg, old_board)
           after == result.afterstate
           next == result.next_state
       IN  /\ err = "none"
           /\ after.board = moved.board
           /\ after.score = old_score + moved.new_score
           /\ next.score = after.score
           /\ \E p \in Idx \X Idx :
                /\ Diff(after.board, next.board) = {p}
                /\ after.board[p[1]][p[2]] = 0
                /\ next.board[p[1]][p[2]] \in {2, 4}
           /\ TileCount(next.board) = TileCount(after.board) + 1

C15_Witness ==
    /\ last = "make_move"
    /\ result.arg \in LegalMoves(old_board)
    /\ get_empty_tiles(old_board) = {}
    /\ err = "none"
    /\ new_tile = 4
    /\ TileCount(result.next_state.board) = TileCount(result.afterstate.board) + 1

\* C16: exploring a hypothetical move never mutates the state under
\* evaluation: copy() yields a state with equal board and score that shares
\* no cells with the original, and compute_afterstate, evaluate_action,
\* get_best_action and generateSuccessor leave the board and the score of
\* the state they were given unchanged.
C16_ExploringLeavesStateAlone ==
    /\ LET copied == copy(State)
       IN  /\ copied.board = board
           /\ copied.score = score
           /\ copied.shares = "nothing"
    /\ last \in {"compute_afterstate", "evaluate_action", "get_best_action",
                 "generateSuccessor"}
       => board = old_board /\ score = old_score

C16_Witness ==
    /\ last \in {"compute_afterstate", "generateSuccessor"}
    /\ result.arg \in {"UP", "DOWN"}
    /\ result.afterstate.board # old_board
    /\ result.afterstate.score > old_score
    /\ board = old_board
    /\ score = old_score

\* The cell of the input board that cell (i, j) of the g-th image shows:
\* the identity, rotations by 90, 180 and 270 degrees clockwise (images 1,
\* 3, 5, 7), each followed by the reversal of the row order (images 2, 4,
\* 6, 8). A rotation by 90 degrees clockwise has new[i][j] = old[N-1-j][i]
\* for indices from 0.
D4Source(g, i, j) ==
    LET N == Size + 1
    IN  CASE g = 1 -> <<i, j>>
          [] g = 2 -> <<N - i, j>>
          [] g = 3 -> <<N - j, i>>
          [] g = 4 -> <<N - j, N - i>>
          [] g = 5 -> <<N - i, N - j>>
          [] g = 6 -> <<i, N - j>>
          [] g = 7 -> <<j, N - i>>
          [] g = 8 -> <<j, i>>

\* The image of board b under the g-th element of the dihedral group.
D4Image(g, b) ==
    [i \in Idx |-> [j \in Idx |->
        b[D4Source(g, i, j)[1]][D4Source(g, i, j)[2]]]]

\* How often the value v occurs on board b.
Occurrences(b, v) == Cardinality({p \in Idx \X Idx : b[p[1]][p[2]] = v})

\* A board whose cells all differ.
NumberedBoard == [i \in Idx |-> [j \in Idx |-> Size * (i - 1) + j]]

\* C17: symmetries(state) returns 8 boards, the images of the input board
\* under the 8 elements of the dihedral group, each element once (on a
\* board whose cells all differ the 8 images all differ); every image has
\* the same multiset of tile values as the input.
C17_SymmetriesAreTheDihedralImages ==
    last = "symmetries"
    => /\ Len(result.states) = 8
       /\ \A g \in 1..8 : result.states[g] = D4Image(g, old_board)
       /\ \A g \in 1..8 : \A p \in Idx \X Idx :
            Occurrences(result.states[g], old_board[p[1]][p[2]])
                = Occurrences(old_board, old_board[p[1]][p[2]])
       /\ LET images == symmetries(GameOf(NumberedBoard, 0))
          IN  \A g, h \in 1..8 :
                /\ images[g].board = D4Image(g, NumberedBoard)
                /\ g # h => images[g].board # images[h].board

C17_Witness ==
    /\ last = "symmetries"
    /\ Len(result.states) = 8
    /\ \A g, h \in 1..8 : g # h => result.states[g] # result.states[h]
    /\ result.states[3][1][4] = 256

\* The weight table lut stores for what n-tuple ntuple reads on board b, 0
\* when the feature has no entry.
StoredWeight(lut, ntuple, b) ==
    LET feature == [k \in 1..Len(ntuple) |-> b[ntuple[k][1]][ntuple[k][2]]]
    IN  IF feature \in DOMAIN lut[ntuple] THEN lut[ntuple][feature] ELSE 0

\* The sum of the stored weights over all pairs of one of the 8 images of
\* board b and one n-tuple of the agent of module a.
WeightSum(a, lut, b) ==
    LET tuples == 1..Len(ntuples(a))
        OfImage(g) ==
            SumSet([n \in tuples |->
                        StoredWeight(lut, ntuples(a)[n], D4Image(g, b))],
                   tuples)
    IN  SumSet([g \in 1..8 |-> OfImage(g)], 1..8)

\* C18: evaluate_state(state) equals the sum, over every pair of one of the
\* 8 symmetries of the board and one configured n-tuple, of the weight the
\* lookup table stores for the feature read there, 0 for a feature without
\* an entry; the sum is over the set of pairs, in no order, and is the same
\* on the table before the call and on the table after it.
C18_EvaluateStateSumsStoredWeights ==
    last = "evaluate_state"
    => /\ result.value = WeightSum(agent, old_LUT, old_board)
       /\ result.value = WeightSum(agent, LUT, old_board)

C18_Witness ==
    /\ last = "evaluate_state"
    /\ agent = Experimental
    /\ result.value < 0
    /\ LUT # old_LUT
    /\ \E ntuple \in DOMAIN old_LUT : old_LUT[ntuple] # << >>

\* C19: evaluate_action(state, action) equals the merge score of applying
\* the action to the state plus evaluate_state of the resulting afterstate,
\* with nothing else added.
C19_EvaluateActionIsRewardPlusValue ==
    last = "evaluate_action"
    => LET moved == Apply(result.arg, old_board)
       IN  result.value =
                moved.new_score + WeightSum(agent, old_LUT, moved.board)

\* The same for the agent of tdlearningagent.py alone.
C19_BaseAgentOnly ==
    agent = Base => C19_EvaluateActionIsRewardPlusValue

\* What evaluate_action returns for action m on the state and the table
\* the last call was given.
ActionValue(m) ==
    self_evaluate_action(agent, old_LUT, GameOf(old_board, old_score), m).value

\* The action returned is a legal move of the greatest value.
ReturnedLegalAndMaximal ==
    /\ result.action \in LegalMoves(old_board)
    /\ \E returned \in {ActionValue(result.action)} :
        \A m \in LegalMoves(old_board) : returned >= ActionValue(m)

\* C20: for every non-terminal state and every lookup-table content, greedy
\* get_best_action returns a member of get_legal_moves() whose
\* evaluate_action value is the maximum over all legal moves.
C20_BestActionIsLegalAndMaximal ==
    (/\ last = "get_best_action"
     /\ result.arg = "greedy"
     /\ ~GameOver(old_board))
    => ReturnedLegalAndMaximal

\* The same where some legal move has a value above the -999999 that
\* get_best_action starts from.
C20_AboveTheStartingValue ==
    (/\ last = "get_best_action"
     /\ result.arg = "greedy"
     /\ \E m \in LegalMoves(old_board) : ActionValue(m) > -999999)
    => ReturnedLegalAndMaximal

\* The methods that read the lookup tables without learning.
Readers == {"evaluate_state", "evaluate_action", "get_best_action"}

\* C24: evaluate_feature, evaluate_state, evaluate_action and
\* get_best_action leave the contents of every lookup table unchanged: its
\* set of entries and their weights.
C24_ReadersLeaveTheTablesAlone ==
    last \in Readers => LUT = old_LUT

\* What does hold of them: every entry keeps its weight, and an entry that
\* is new has the weight 0.
C24_ReadersOnlyEnterZeros ==
    last \in Readers
    => \A ntuple \in DOMAIN old_LUT :
        /\ DOMAIN old_LUT[ntuple] \subseteq DOMAIN LUT[ntuple]
        /\ \A f \in DOMAIN LUT[ntuple] :
            LUT[ntuple][f] = IF f \in DOMAIN old_LUT[ntuple]
                             THEN old_LUT[ntuple][f] ELSE 0

\* C30: for a fixed lookup table, evaluate_state has the same value on a
\* board and on each of its 8 images under the dihedral group.
C30_EvaluateStateIsSymmetric ==
    last = "evaluate_state"
    => \A g \in 1..8 :
        evaluate_state(old_LUT, GameOf(D4Image(g, old_board), old_score),
                       ntuples(agent)).value = result.value

C30_Witness ==
    /\ last = "evaluate_state"
    /\ result.value # 0
    /\ \A g \in 2..8 : D4Image(g, old_board) # old_board
    /\ \E ntuple \in DOMAIN old_LUT : \E f, h \in DOMAIN old_LUT[ntuple] :
        old_LUT[ntuple][f] # old_LUT[ntuple][h]

\* Where play_game can be.
InPlayGame == last \in {"play_game", "learn", "return", "raise"}

\* C21: during any training or play episode, whatever the lookup-table
\* weights are, every action passed to compute_afterstate is one of LEFT,
\* RIGHT, UP, DOWN, so the invalid-action error is never raised.
C21_EpisodesPassOnlyTheFourActions ==
    InPlayGame
    => /\ result.action \in Actions \cup {""}
       /\ \A k \in 1..Len(log) : log[k].next_action \in Actions
       /\ \A action \in {"NULL"} : err # InvalidMoveError(action)

\* What does hold: the loop of play_game passes another string only where
\* no legal move has a value above the -999999 get_best_action starts from.
C21_OnlyBelowTheStartingValue ==
    (/\ InPlayGame
     /\ result.action = "NULL")
    => \A m \in LegalMoves(old_board) :
        ~Greater(Evaluations(agent, LUT, fractions,
                             GameOf(old_board, old_score), {m})[m].value,
                 <<-999999>>)

\* The number a table holds for feature f of an n-tuple, digit by digit: 0
\* where the feature has no entry.
StoredNumber(lut, fr, ntuple, f) ==
    <<IF f \in DOMAIN lut[ntuple] THEN lut[ntuple][f] ELSE 0>>
    \o [i \in 1..Len(fr) |-> DigitOf(fr[i][ntuple], f)]

\* The sum of the stored numbers over the 8 images of board b and the
\* n-tuples of the agent.
NumberSum(a, lut, fr, b) ==
    <<WeightSum(a, lut, b)>> \o [i \in 1..Len(fr) |-> WeightSum(a, fr[i], b)]

\* Two numbers are the same number.
SameNumber(n, k) ==
    \E d \in {Normal(Plus(n, Negative(k)), StepDivisor(agent))} :
        \A i \in DOMAIN d : d[i] = 0

\* What evaluate_action returns for action m on board b with the table of
\* log entry e.
LoggedActionValue(e, m) ==
    Evaluations(agent, e.LUT, e.fractions, e.next_state, {m})[m].value

\* C22: one learning update for a transition (afterstate, next_state)
\* adds, in every n-tuple's table, (learning_rate / m) * (next_reward +
\* evaluate_state(next_afterstate) - evaluate_state(afterstate)) to the
\* weight of the feature read from the afterstate, where next_afterstate
\* and next_reward come from the greedy best action in next_state and both
\* values are taken before any weight is changed; no other weight changes.
C22_UpdateAddsTheScaledDifference ==
    (/\ InPlayGame
     /\ log # <<>>
     /\ log[Len(log)].err = "none")
    => \E e \in {log[Len(log)]} :
       \E moved \in {Apply(e.next_action, e.next_state.board)} :
       \E step \in {<<0>> \o
                    Plus(<<moved.new_score>>,
                         Plus(NumberSum(agent, e.LUT, e.fractions, moved.board),
                              Negative(NumberSum(agent, e.LUT, e.fractions,
                                                 e.afterstate.board))))} :
        /\ e.next_action \in LegalMoves(e.next_state.board)
        /\ \A m \in LegalMoves(e.next_state.board) :
            ~Greater(LoggedActionValue(e, m), LoggedActionValue(e, e.next_action))
        /\ \A ntuple \in DOMAIN LUT :
            /\ Feature(ntuple, e.afterstate) \in DOMAIN LUT[ntuple]
            /\ \A f \in DOMAIN LUT[ntuple] :
                SameNumber(StoredNumber(LUT, fractions, ntuple, f),
                           IF f = Feature(ntuple, e.afterstate)
                           THEN Plus(StoredNumber(e.LUT, e.fractions, ntuple, f),
                                     step)
                           ELSE StoredNumber(e.LUT, e.fractions, ntuple, f))

C22_Witness ==
    /\ InPlayGame
    /\ Len(log) = 2
    /\ log[2].err = "none"
    /\ agent = Experimental
    /\ \E ntuple \in DOMAIN LUT :
        /\ ~SameNumber(StoredNumber(LUT, fractions, ntuple,
                                    Feature(ntuple, log[2].afterstate)),
                       StoredNumber(log[2].LUT, log[2].fractions, ntuple,
                                    Feature(ntuple, log[2].afterstate)))
        /\ \E f \in DOMAIN log[2].LUT[ntuple] : log[2].LUT[ntuple][f] # 0
        /\ \E f \in DOMAIN log[2].fractions[1][ntuple] :
            log[2].fractions[1][ntuple][f] # 0

\* A transition that does not end the game.
NonTerminal(t) == ~GameOver(t.next_state.board)

\* The transition a log entry is about.
TransitionOf(e) == [afterstate |-> e.afterstate, next_state |-> e.next_state]

\* Every weight the table held when play_game was called is still there
\* with its value, and every other weight is 0.
StoredWeightsUnchanged ==
    /\ fractions = <<>>
    /\ \A ntuple \in DOMAIN old_LUT :
        /\ DOMAIN old_LUT[ntuple] \subseteq DOMAIN LUT[ntuple]
        /\ \A f \in DOMAIN LUT[ntuple] :
            LUT[ntuple][f] = IF f \in DOMAIN old_LUT[ntuple]
                             THEN old_LUT[ntuple][f] ELSE 0

\* C23: a learning update is applied for a transition only when its
\* next_state is non-terminal and only when learning is enabled: the
\* transition that ends the game never triggers an update, and with
\* learn = False an entire episode leaves every stored weight unchanged.
C23_LearnsOnlyFromNonTerminalWhenEnabled ==
    InPlayGame
    => /\ \A k \in 1..Len(log) : learn /\ NonTerminal(log[k])
       /\ \A k \in 1..Len(log) : \E i \in 1..Len(history) :
            history[i] = TransitionOf(log[k])
       /\ ~learn => log = <<>> /\ StoredWeightsUnchanged

C23_Witness ==
    /\ last = "return"
    /\ learn
    /\ Len(history) = 3
    /\ ~NonTerminal(history[3])
    /\ Len(log) = 2
    /\ ~StoredWeightsUnchanged

\* A game over with learning disabled and the table as it was.
C23_WitnessDisabled ==
    /\ last = "return"
    /\ ~learn
    /\ Len(history) = 3
    /\ LUT # old_LUT

\* The sequence h from its last member to its first.
Backwards(h) == [i \in 1..Len(h) |-> h[Len(h) + 1 - i]]

\* The first n members of the sequence h.
FirstOf(h, n) == SubSeq(h, 1, n)

\* The transitions of the log, in its order.
LoggedTransitions == [k \in 1..Len(log) |-> TransitionOf(log[k])]

\* C29: in play_game of tdlearningagent.py no lookup-table weight changes
\* while the episode is played; after the game is over one update is
\* applied per recorded transition whose next_state is non-terminal, last
\* transition first. In the experimental module each update is applied
\* right after its transition, before the next action is selected.
C29_UpdatesDeferredAndReversed ==
    /\ (agent = Base /\ last = "play_game")
       => log = <<>> /\ StoredWeightsUnchanged
    /\ (agent = Base /\ learn /\ last \in {"learn", "return"})
       => LoggedTransitions =
            SelectSeq(FirstOf(Backwards(history), Len(history) - left),
                      NonTerminal)
    /\ (agent = Experimental /\ learn /\ last \in {"play_game", "return"})
       => LoggedTransitions = SelectSeq(history, NonTerminal)

C29_Witness ==
    /\ agent = Base
    /\ last = "return"
    /\ Len(history) = 3
    /\ Len(log) = 2
    /\ TransitionOf(log[1]) = history[2]
    /\ TransitionOf(log[2]) = history[1]
    /\ history[1] # history[2]

\* The experimental module has learned from two transitions and is about
\* to select its third action.
C29_WitnessExperimental ==
    /\ agent = Experimental
    /\ last = "play_game"
    /\ ~GameOver(board)
    /\ Len(history) = 2
    /\ Len(log) = 2

\* Every iteration of an episode loop adds the spawned tile to the total of
\* the tiles, which is what bounds the length of an episode.
C25_EveryIterationAddsTheSpawnedTile ==
    [][(last = "episode" /\ last' = "episode")
       => /\ new_tile' \in NewTileValues
          /\ Total(board') = Total(board) + new_tile']_vars

\* Wherever the loop stands at its test, the test is that of the board, and
\* an iteration can be made if the game is not over: there is a legal move
\* and every legal move leaves a cell for the spawn.
C25_EveryIterationCanBeMade ==
    last = "episode"
    => /\ over = GameOver(board)
       /\ legal = LegalMoves(board)
       /\ ~over => legal # {}
       /\ \A d \in legal : get_empty_tiles(Apply(d, board).board) # {}

C26_CacheHoldsOnlyThisDecision ==
    /\ hit # <<>> => hit[1].call = calls
    /\ \A key \in DOMAIN cache : cache[key].call = calls

\* The second get_best_move call on the agent reads a value from the cache.
C26_Witness ==
    /\ calls = 2
    /\ hit # <<>>
    /\ hit[1].call = 2
    /\ returns[1].fn = "expectimax"
    /\ returns[1].value = cache[hit[1].key].value

\* The call that has just returned, if it is a call of fn.
JustReturned(fn) == returns # <<>> /\ returns[1].fn = fn

\* What expectimax(board, depth, 0) has returned to the chance node that
\* has just returned: the evaluation of a leaf, or the value it stored.
SearchValue(b, depth) ==
    IF GameOver(b) \/ depth = SearchDepth
    THEN evaluate(b) * Unit
    ELSE cache[[board |-> b, depth |-> depth, agentIndex |-> 0]].value

\* The sum over the cells of the list of 0.9 / n times the search value
\* with a 2 in the cell and 0.1 / n times the search value with a 4.
ExpectationOver(list, b, depth) ==
    SumSet([k \in 1..Len(list) |->
                TimesNineTenths(SearchValue(PlaceTile(b, list[k], 2), depth + 1),
                                Len(list))
                + TimesOneTenth(SearchValue(PlaceTile(b, list[k], 4), depth + 1),
                                Len(list))],
           1..Len(list))

\* The sum over the cells of the list of 0.9 / n + 0.12 / n times the
\* search value with a 2 in the cell.
TwosOnlyOver(list, b, depth) ==
    SumSet([k \in 1..Len(list) |->
                TimesNineTenths(SearchValue(PlaceTile(b, list[k], 2), depth + 1),
                                Len(list))
                + TimesOneTenthAndMore(
                        SearchValue(PlaceTile(b, list[k], 2), depth + 1),
                        Len(list))],
           1..Len(list))

\* C27: the value of a chance node is the expectation, over the empty
\* cells it considers (each equally likely) and the tile placed there (2
\* with probability 0.9, 4 with probability 0.1), of the search value of
\* the board that results from placing that tile.
C27_ChanceValueIsTheExpectation ==
    (JustReturned("chance_value") /\ returns[1].list # <<>>)
    => returns[1].value =
        ExpectationOver(returns[1].list, returns[1].board, returns[1].depth)

\* Above the last level of chance nodes the value is that expectation, over
\* the list of cells with its repetitions.
C27_ExpectationAboveTheLastLevel ==
    (/\ JustReturned("chance_value")
     /\ returns[1].list # <<>>
     /\ returns[1].depth < SearchDepth - 1)
    => returns[1].value =
        ExpectationOver(returns[1].list, returns[1].board, returns[1].depth)

\* On the last level the board with a 4 is not searched: its value is taken
\* to be 1.2 times that of the board with a 2.
C27_LastLevelSearchesTheTwosOnly ==
    (/\ JustReturned("chance_value")
     /\ returns[1].list # <<>>
     /\ returns[1].depth >= SearchDepth - 1)
    => returns[1].value =
        TwosOnlyOver(returns[1].list, returns[1].board, returns[1].depth)

\* The values the shares are taken of are whole numbers of the divisors.
C27_SharesAreExact ==
    (stack # <<>> /\ Top.fn = "chance_value" /\ Top.pc \in {"val2", "val4"})
    => IF Top.pc = "val2" /\ Top.depth >= SearchDepth - 1
       THEN returns[1].value % (100 * Len(Top.list)) = 0
       ELSE returns[1].value % (10 * Len(Top.list)) = 0

\* The chance nodes that have made their list of cells.
ChanceNodes ==
    {k \in 1..Len(stack) :
        stack[k].fn = "chance_value" /\ stack[k].pc # "start"}

\* The list holds no cell twice.
NoCellTwice(list) ==
    \A i, j \in 1..Len(list) : i # j => list[i] # list[j]

\* No interior cell is in the list while an empty edge cell is left out.
EdgesAhead(list, b) ==
    (\E p \in get_empty_tiles(b) :
        OnEdge(p) /\ \A i \in 1..Len(list) : list[i] # p)
    => \A i \in 1..Len(list) : OnEdge(list[i])

\* C28: when a chance node has more than 4 empty cells, the cells it
\* evaluates form a subset of the empty cells with at most 4 members, all
\* distinct, chosen with edge and corner cells ahead of interior cells;
\* with 4 or fewer empty cells it evaluates every empty cell exactly once.
C28_ConsidersDistinctCells ==
    \A k \in ChanceNodes :
        LET list == stack[k].list
            empty == get_empty_tiles(stack[k].board)
        IN  /\ \A i \in 1..Len(list) : list[i] \in empty
            /\ NoCellTwice(list)
            /\ Cardinality(empty) > 4
               => Len(list) <= 4 /\ EdgesAhead(list, stack[k].board)
            /\ Cardinality(empty) <= 4
               => {list[i] : i \in 1..Len(list)} = empty

\* What holds of the list: its cells are empty cells, with more than 4 empty
\* cells it has 4 entries with the edge cells ahead, distinct if more than 4
\* edge cells are empty, and with 4 or fewer empty cells it is the empty
\* cells, each once.
C28_ConsidersFourEntries ==
    \A k \in ChanceNodes :
        LET list == stack[k].list
            empty == get_empty_tiles(stack[k].board)
        IN  /\ \A i \in 1..Len(list) : list[i] \in empty
            /\ Cardinality(empty) > 4
               => /\ Len(list) = 4
                  /\ EdgesAhead(list, stack[k].board)
                  /\ Cardinality({p \in empty : OnEdge(p)}) >= 4
                     => NoCellTwice(list)
            /\ Cardinality(empty) <= 4
               => /\ {list[i] : i \in 1..Len(list)} = empty
                  /\ NoCellTwice(list)

-----------------------------------------------------------------------------
(* C31: what get_best_move returns, and the game it was given *)

\* get_best_move has returned to its caller.
BestMoveReturned ==
    /\ last = "get_best_move"
    /\ stack = <<>>
    /\ returns # <<>>
    /\ returns[1].fn = "get_best_move"

\* C31: get_best_move returns None exactly when the game it was given has no
\* legal move, and otherwise one of the game's legal moves, so that a caller
\* which asks only while the game is not over never gets None; and when it
\* returns, the board and the score of the game are what they were at the
\* call.
C31_BestMoveIsLegalAndGameUntouched ==
    BestMoveReturned =>
        /\ returns[1].move = "None" <=> LegalMoves(old_board) = {}
        /\ returns[1].move # "None" => returns[1].move \in LegalMoves(old_board)
        /\ ~GameOver(old_board) => returns[1].move # "None"
        /\ board = old_board
        /\ score = old_score

\* Both cases happen: None for a game that is over, and for a game with a
\* legal move a search that ends with one of them.
C31_Witness ==
    /\ BestMoveReturned
    /\ returns[1].move \in LegalMoves(old_board)
    /\ Cardinality(LegalMoves(old_board)) = 4
    /\ board = old_board
    /\ score = old_score
    /\ score > 0

C31_WitnessNone ==
    /\ BestMoveReturned
    /\ returns[1].move = "None"
    /\ GameOver(old_board)
    /\ get_empty_tiles(old_board) = {}

-----------------------------------------------------------------------------
(* C32: the cache is transparent *)

\* The value of the search of board b at the depth and node type with the
\* cache disabled: every node below is computed, none is looked up.
RECURSIVE FreshValue(_, _, _)
RECURSIVE FreshMax(_, _, _, _)
FreshMax(b, depth, moves, k) ==
    Once(FreshValue(Apply(moves[k], b).board, depth, 1),
         LAMBDA value :
            IF k = Len(moves) THEN value
            ELSE Once(FreshMax(b, depth, moves, k + 1),
                      LAMBDA maxValue :
                        IF value >= maxValue THEN value ELSE maxValue))

FreshChance(b, depth) ==
    LET list == chance_cells(b)
        n == Len(list)
    IN  SumSet([k \in 1..n |->
            Once(FreshValue(PlaceTile(b, list[k], 2), depth + 1, 0),
                 LAMBDA val2 :
                    TimesNineTenths(val2, n)
                    + IF depth < SearchDepth - 1
                      THEN TimesOneTenth(
                               FreshValue(PlaceTile(b, list[k], 4),
                                          depth + 1, 0), n)
                      ELSE TimesOneTenthAndMore(val2, n))],
            1..n)

FreshValue(b, depth, agentIndex) ==
    IF GameOver(b) \/ depth = SearchDepth THEN evaluate(b) * Unit
    ELSE IF agentIndex = 0
    THEN FreshMax(b, depth, moves_list(set_order, b), 1)
    ELSE IF get_empty_tiles(b) = {} THEN evaluate(b) * Unit
    ELSE FreshChance(b, depth)

\* The move chosen with the cache disabled: the first move of the list
\* whose successor has the greatest fresh value, with that value.
RECURSIVE FreshBest(_, _, _)
FreshBest(b, list, k) ==
    Once(FreshValue(Apply(list[k], b).board, 0, 1),
         LAMBDA value :
            IF k = Len(list) THEN [value |-> value, move |-> list[k]]
            ELSE Once(FreshBest(b, list, k + 1),
                      LAMBDA best :
                        IF value >= best.value
                        THEN [value |-> value, move |-> list[k]]
                        ELSE best))

\* expectimax has just returned a value it found in the cache.
ReturnedFromCache == JustReturned("expectimax") /\ hit # <<>>

\* C32: within one get_best_move call, whenever expectimax returns a value
\* from the cache, that value is the value a fresh computation for the same
\* board, depth and node type returns, and the move get_best_move returns is
\* the move it returns with the cache disabled.
C32_CacheIsTransparent ==
    /\ ReturnedFromCache
       => returns[1].value =
            FreshValue(returns[1].board, returns[1].depth, returns[1].agentIndex)
    /\ (BestMoveReturned /\ returns[1].move # "None")
       => returns[1].move =
            FreshBest(old_board, move_scores(GameOf(old_board, old_score)), 1).move

\* The cache is read for a max node and for a chance node, and a search
\* that read it ends with a move.
C32_Witness ==
    /\ ReturnedFromCache
    /\ returns[1].agentIndex = 0
    /\ returns[1].depth = 1
    /\ ~GameOver(returns[1].board)

C32_WitnessChance ==
    /\ ReturnedFromCache
    /\ returns[1].agentIndex = 1

C32_WitnessMove ==
    /\ BestMoveReturned
    /\ returns[1].move # "None"
    /\ DOMAIN cache # {}

-----------------------------------------------------------------------------
(* C33: the search terminates within the depth limit *)

\* Every call on the stack has a depth from 0 to the depth limit.
DepthWithinLimit ==
    \A k \in 1..Len(stack) : stack[k].depth \in 0..SearchDepth

\* What each method on the stack has called: get_best_move a chance node at
\* depth 0, expectimax the node of its type at its depth and only when it
\* is not at the depth limit nor at a board that is over, max_value a chance
\* node at its depth, chance_value a max node one deeper.
CallsByDepth ==
    \A k \in 1..(Len(stack) - 1) :
        LET f == stack[k]
            g == stack[k + 1]
        IN  CASE f.fn = "get_best_move" ->
                    g.fn = "expectimax" /\ g.depth = 0 /\ g.agentIndex = 1
              [] f.fn = "expectimax" ->
                    /\ g.fn = IF f.agentIndex = 0 THEN "max_value"
                              ELSE "chance_value"
                    /\ g.depth = f.depth
                    /\ f.depth < SearchDepth
                    /\ ~GameOver(f.board)
              [] f.fn = "max_value" ->
                    g.fn = "expectimax" /\ g.depth = f.depth /\ g.agentIndex = 1
              [] f.fn = "chance_value" ->
                    g.fn = "expectimax" /\ g.depth = f.depth + 1
                    /\ g.agentIndex = 0

\* expectimax has just returned from the depth limit or from a board that
\* is over.
LeafReturned ==
    /\ JustReturned("expectimax")
    /\ returns[1].depth = SearchDepth \/ GameOver(returns[1].board)

\* The value of a leaf is the heuristic value of its board, and nothing was
\* stored for it.
LeavesAreEvaluated ==
    LeafReturned =>
        /\ returns[1].value = evaluate(returns[1].board) * Unit
        /\ hit = <<>>
        /\ [board |-> returns[1].board, depth |-> returns[1].depth,
            agentIndex |-> returns[1].agentIndex] \notin DOMAIN cache

\* A running search can take its next step: the method on top of the stack
\* is at one of its statements, with the value it waits for returned.
SearchCanStep ==
    stack # <<>> =>
        /\ <<Top.fn, Top.pc>> \in
              { <<"get_best_move", "for">>, <<"get_best_move", "value">>,
                <<"expectimax", "start">>, <<"expectimax", "result">>,
                <<"max_value", "start">>, <<"max_value", "for">>,
                <<"max_value", "value">>, <<"chance_value", "start">>,
                <<"chance_value", "for">>, <<"chance_value", "val2">>,
                <<"chance_value", "val4">> }
        /\ Top.pc \in {"value", "result", "val2", "val4"} => returns # <<>>

C33_DepthDiscipline ==
    /\ DepthWithinLimit
    /\ CallsByDepth
    /\ LeavesAreEvaluated
    /\ SearchCanStep

\* C33: every search terminates, and in it the depth never exceeds the
\* depth limit: the depth is one more only in what a chance node calls, a
\* max node calls at its own depth, and a node at the depth limit or at a
\* board that is over returns the heuristic value and calls nothing.
C33_SearchTerminatesWithinDepth ==
    /\ []C33_DepthDiscipline
    /\ (stack # <<>>) ~> BestMoveReturned

\* A search is at the depth limit below two chance nodes and a max node,
\* and a search has returned a move.
C33_Witness ==
    /\ LeafReturned
    /\ returns[1].depth = SearchDepth
    /\ Len(stack) = 7
    /\ Top.fn = "chance_value"
    /\ Top.depth = SearchDepth - 1
    /\ stack[5].fn = "max_value"
    /\ stack[3].fn = "chance_value"
    /\ stack[3].depth = 0

C33_WitnessOver ==
    /\ LeafReturned
    /\ returns[1].depth < SearchDepth
    /\ GameOver(returns[1].board)

C33_WitnessReturned ==
    /\ BestMoveReturned
    /\ returns[1].move # "None"
    /\ calls = MaxCalls

====
